---- MODULE Spec2Model ----
(***************************************************************************)
(* A model of go-test-parser's task driver (package parser: Parse and      *)
(* parseDir) and of its subtest refactorer (package testcase:              *)
(* AttemptRefactoring, refactorToSubtests, cloneHelperFunction).           *)
(*                                                                         *)
(* SpecParse    one call of Parse, with its errgroup worker pool           *)
(* SpecRefactor a sequence of AttemptRefactoring calls over one disk       *)
(* SpecVisit    one call of Parse with the file loop and AnalyzeCommand's  *)
(*              Visit taken apart into their steps                         *)
(* SpecWriter   task clones calling one shared FileWriter                  *)
(* SpecExpand   ExpandStatement applied to a statement of a call graph     *)
(* SpecScenario IdentifyScenarioSet applied to a test's statements         *)
(***************************************************************************)
EXTENDS Integers, Sequences, FiniteSets, TLC

\* ------------------------------------------------------------ bounds
\* The largest number of top-level subdirectories of rootDir.
MaxDirs == 3
\* The largest value of the `threads` argument.
MaxThreads == 2
\* The largest number of syntax files the loaded packages of one directory hold.
MaxFiles == 2

\* The largest number of tests handed to AttemptRefactoring, one after the other.
MaxTests == 2
\* The number of source files of the package under refactoring.
NumFiles == 2

\* Task identities: 0 is the original task handed to Parse, d >= 1 is the clone
\* made for the d-th subdirectory in os.ReadDir's (sorted) enumeration order.
Tasks == 0 .. MaxDirs
Dirs == 1 .. MaxDirs

\* ------------------------------------------------------------ error values
NoCall == [kind |-> "none", dir |-> 0]
Nil == [kind |-> "nil", dir |-> 0]
\* packages.Load failed in directory d, wrapped by parseDir (and by the worker).
LoadErr(d) == [kind |-> "load", dir |-> d]
\* ctx.Err() of the cancelled shared context; dir = 0 when it is returned bare by
\* the worker's own check, d when parseDir returned it and the worker wrapped it.
Canceled(d) == [kind |-> "canceled", dir |-> d]

VARIABLES
    \* ---- Parse's arguments and the directory listing
    splitByDir,     \* the splitByDir argument
    threads,        \* the threads argument (g.SetLimit)
    nDirs,          \* how many entries of rootDir are directories
    \* ---- the main goroutine
    mpc,            \* where Parse is: "schedule", "wait", "single", "close", "returned"
    nextDir,        \* the next subdirectory the range loop hands to g.Go
    parseRet,       \* what Parse returned (NoCall until it returns)
    closeCount,     \* calls of t.Close() on the original task
    \* ---- the errgroup
    sem,            \* tokens held in g.sem (goroutines started and not yet done)
    gerr,           \* g.err, set once by errOnce
    cancelled,      \* gctx is done
    \* ---- one parseDir run per task
    wpc,            \* where each run is
    wret,           \* what the worker function / parseDir returned
    files,          \* syntax files still to iterate
    loaded,         \* outcome of packages.Load: "none", "err", "empty", "pkgs"
    visits,         \* Visit calls made on each task
    reports,        \* ReportResults calls made on each task
    \* ---- history
    firstErr,       \* the worker whose error reached the group first (0: none yet)
    outOfOrder,     \* a ReportResults call occurred after that of a later subdirectory
    sawCancel,      \* the run has passed a check-point with its context done
    \* ---- the refactorer: the call in progress
    rpc,            \* where AttemptRefactoring is
    cur,            \* the test under refactoring (0 before the first call)
    status,         \* rr.GenerationStatus
    refs,           \* rr.Refactorings: <<[file, cleanup]>>
    idx,            \* the index of the loop over rr.Refactorings
    savedKeys,      \* the keys of originalFileContents
    saved,          \* the values of originalFileContents
    \* ---- the refactorer: the world
    disk,           \* the bytes of each source file
    tfile,          \* tc.file of each test (0: not analysed yet)
    efile,          \* the file of the function enclosing each test's runner
    inFile,         \* which declaration node the enclosing file holds for it
    runner,         \* which node ss.Runner points into
    origMut,        \* the original node's loop body holds the t.Run call
    copyMut,        \* the deep copy's loop body holds the t.Run call
    \* ---- history of the call in progress
    diskAtCall,     \* the disk when AttemptRefactoring was called
    written,        \* files whose bytes the call's rewrite has changed
    restoreTried,   \* files the call has tried to write the original bytes back to
    cloned,         \* cloneHelperFunction left a deep copy in place of the helper
    cleanups,       \* calls of RefactoredFunction.Cleanup with a closure
    execs,          \* calls of tc.Execute()
    diskFailed,     \* a disk operation of the call has failed
    cloneOutcome,   \* how cloneHelperFunction ended in the call in progress
    \* ---- Visit taken apart
    tleft,          \* test functions of the file still to handle, per task
    skippedOther,   \* a file outside vendor/ and free of package errors was skipped
    visitedExcluded,\* a file under vendor/ or named by a package error was visited
    fatal,          \* what has killed the process ("none": it is alive)
    \* ---- the shared FileWriter
    mu,             \* writer.mu is locked
    fopen,          \* writer.file is not nil
    log,            \* the items appended to the file: <<[clone, call]>>
    calls,          \* calls of Write, WriteMultiple and Close made so far
    cpc,            \* where each clone's call is: "idle", "waiting", "locked"
    cop,            \* the method each clone is calling
    cleft,          \* the items each clone's call has still to append
    ccall,          \* the number of each clone's call among all calls
    \* ---- ExpandStatement
    body,           \* the call graph: the statements of each function's body
    rootStmt,       \* the statement handed to ExpandStatement
    expanded,       \* ExpandStatement has returned
    tree,           \* the root-to-leaf paths of the tree it returned
    sites,          \* per call of the statement: its callee's body was expanded
    \* ---- IdentifyScenarioSet
    spc,            \* where IdentifyScenarioSet is: "idle", "loop", "nil" (it returned
                    \* nil), "returned" (it returned ss), "panic"
    examined,       \* statements the loop has examined
    ss,             \* the ScenarioSet under construction
    rejected,       \* range loops examined and found to range over no known structure
    helperLoop,     \* a helper call was examined whose expansion holds a range loop
                    \* over a list of structs or a map
    \* ---- the CSV appender
    cfile,          \* the bytes of the CSV file on disk
    copen,          \* a FileWriter holds the file open
    once,           \* the appender's sync.Once has run
    existingHeaders,\* the appender's existingHeaders (<<>>: nil)
    cheader,        \* the header sequence that begins the file ("none": empty file)
    clog,           \* the append calls since the file was last empty
    cn,             \* the append calls made so far
    \* ---- the JSON appender
    jfile,          \* the text of the JSON file on disk
    jopen,          \* a FileWriter holds the file open
    jonce,          \* the appender's sync.Once has run
    alreadyWritten, \* the appender's alreadyWritten (<<>>: nil)
    jlog,           \* the append calls made on this appender
    tester,         \* the name of the enclosing function's *testing.T parameter ("": none)
    loopType,       \* ss.Runner is a range statement or another loop
    loopKey,        \* loop.Key as the parser read it
    loopValue,      \* loop.Value as the parser read it
    ssNameField,    \* ss.NameField
    firstString,    \* the first string-typed field of the scenario type ("": none)
    runnerStmts,    \* ss.GetRunnerStatements() before the refactoring
    helperCopy,     \* cloneHelperFunction returns a RefactoredFunction
    tpc,            \* where refactorToSubtests is
    genStatus,      \* the RefactorGenerationStatus it returned
    tRun,           \* the t.Run call statement it built
    wrapped,        \* loop.Body.List is the t.Run call statement alone
    astKey          \* the name of loop.Key in the AST

dvars == <<splitByDir, threads, nDirs, mpc, nextDir, parseRet, closeCount, sem, gerr,
           cancelled, wpc, wret, files, loaded, visits, reports, firstErr, outOfOrder,
           sawCancel>>

rvars == <<rpc, cur, status, refs, idx, savedKeys, saved, disk, tfile, efile, inFile,
           runner, origMut, copyMut, diskAtCall, written, restoreTried, cloned, cleanups,
           execs, diskFailed, cloneOutcome>>

vvars == <<tleft, skippedOther, visitedExcluded, fatal>>

fwvars == <<mu, fopen, log, calls, cpc, cop, cleft, ccall>>

evars == <<body, rootStmt, expanded, tree, sites>>

svars == <<spc, examined, ss, rejected, helperLoop>>

cvars == <<cfile, copen, once, existingHeaders, cheader, clog, cn>>

jvars == <<jfile, jopen, jonce, alreadyWritten, jlog>>

tvars == <<tester, loopType, loopKey, loopValue, ssNameField, firstString, runnerStmts, helperCopy, tpc, genStatus, tRun, wrapped, astKey>>

vars == <<dvars, rvars, vvars, fwvars, evars, svars, cvars, jvars, tvars>>

\* What the actions of each part of the program leave alone.
nonDriver == <<rvars, vvars, fwvars, evars, svars, cvars, jvars, tvars>>
nonRefactorer == <<dvars, vvars, fwvars, evars, svars, cvars, jvars, tvars>>
nonVisit == <<rvars, fwvars, evars, svars, cvars, jvars, tvars>>
nonWriter == <<dvars, rvars, vvars, evars, svars, cvars, jvars, tvars>>
nonExpander == <<dvars, rvars, vvars, fwvars, svars, cvars, jvars, tvars>>
nonScenario == <<dvars, rvars, vvars, fwvars, evars, cvars, jvars, tvars>>
nonCsv == <<dvars, rvars, vvars, fwvars, evars, svars, jvars, tvars>>
nonJson == <<dvars, rvars, vvars, fwvars, evars, svars, cvars, tvars>>
nonSynth == <<dvars, rvars, vvars, fwvars, evars, svars, cvars, jvars>>

\* ------------------------------------------------------------ the driver
\* Worker d's context: the errgroup's gctx for a clone, context.Background() for
\* the single-directory parse of the original task.
CtxDone(w) == w # 0 /\ cancelled

\* Positions at which a run is inside its per-directory parse: from the start of
\* the worker function (t.Clone()) to the return of parseDir.
Inside == {"clone", "check0", "check1", "load", "files", "visit"}

\* ------------------------------------------------------------ the refactorer's world
Tests == 1 .. MaxTests
SrcFiles == 1 .. NumFiles

\* The bytes of a source file: the formatted file with the loops of the tests in
\* `refd` wrapped in t.Run, or (ok = FALSE) what a failed os.WriteFile left of it.
Pristine == [ok |-> TRUE, refd |-> {}]
Truncated == [ok |-> FALSE, refd |-> {}]

\* The state before the first AttemptRefactoring call.
InitRefactorer ==
    /\ rpc = "idle"
    /\ cur = 0
    /\ status = "none"
    /\ refs = <<>>
    /\ idx = 1
    /\ savedKeys = {}
    /\ saved = [f \in SrcFiles |-> Pristine]
    /\ disk = [f \in SrcFiles |-> Pristine]
    /\ tfile = [t \in Tests |-> 0]
    /\ efile = [t \in Tests |-> 0]
    /\ inFile = [t \in Tests |-> "original"]
    /\ runner = [t \in Tests |-> "original"]
    /\ origMut = [t \in Tests |-> FALSE]
    /\ copyMut = [t \in Tests |-> FALSE]
    /\ diskAtCall = [f \in SrcFiles |-> Pristine]
    /\ written = {}
    /\ restoreTried = {}
    /\ cloned = FALSE
    /\ cleanups = 0
    /\ execs = 0
    /\ diskFailed = FALSE
    /\ cloneOutcome = "none"

\* The state before any file of any directory is visited.
InitVisitor ==
    /\ tleft = [w \in Tasks |-> 0]
    /\ skippedOther = FALSE
    /\ visitedExcluded = FALSE
    /\ fatal = "none"

\* The state at the call of Parse, past its argument checks.
InitDriver ==
    /\ splitByDir \in BOOLEAN
    /\ threads \in 1 .. MaxThreads
    /\ nDirs \in 0 .. MaxDirs
    /\ mpc = IF splitByDir THEN "schedule" ELSE "single"
    /\ nextDir = 1
    /\ parseRet = NoCall
    /\ closeCount = 0
    /\ sem = 0
    /\ gerr = Nil
    /\ cancelled = FALSE
    /\ wpc = [w \in Tasks |-> IF w = 0 /\ ~splitByDir THEN "check1" ELSE "idle"]
    /\ wret = [w \in Tasks |-> NoCall]
    /\ files = [w \in Tasks |-> 0]
    /\ loaded = [w \in Tasks |-> "none"]
    /\ visits = [w \in Tasks |-> 0]
    /\ reports = [w \in Tasks |-> 0]
    /\ firstErr = 0
    /\ outOfOrder = FALSE
    /\ sawCancel = [w \in Tasks |-> FALSE]

\* ------------------------------------------------------------ the other parts at rest
\* The number of task clones that share the FileWriter.
NumClones == 2
\* The largest number of calls made on the FileWriter.
MaxCalls == 3
\* The largest number of elements of the slice handed to WriteMultiple.
MaxBatch == 2
Clones == 1 .. NumClones

\* The FileWriter after NewFileWriter: the file is open and nobody holds the lock.
InitWriter ==
    /\ mu = FALSE
    /\ fopen = TRUE
    /\ log = <<>>
    /\ calls = 0
    /\ cpc = [c \in Clones |-> "idle"]
    /\ cop = [c \in Clones |-> "none"]
    /\ cleft = [c \in Clones |-> 0]
    /\ ccall = [c \in Clones |-> 0]

\* The number of functions of the package under analysis.
NumFuncs == 2
Funcs == 1 .. NumFuncs

\* No statement is under expansion.
NoExpansion ==
    /\ body = [f \in Funcs |-> <<>>]
    /\ rootStmt = <<>>
    /\ expanded = FALSE
    /\ tree = {}
    /\ sites = <<>>

\* The nil types.Type; the types themselves are numbered from 1.
NoType == 0

\* What the type checker knows of a range operand: the shape of its underlying
\* type, the underlying type of its (unpointered) element, whether a map's key
\* is a string. NilType: the checker knows nothing of it.
NilType == [shape |-> "nil", elem |-> NoType, strKey |-> FALSE]

\* An expression: whether it is a composite literal, the number of its elements,
\* whether its first element is a key-value pair, and the underlying type the
\* checker has for that element (for the pair's value, when it is a pair).
NoExpr == [lit |-> FALSE, n |-> 0, kv |-> FALSE, typ |-> NoType]

\* No statement: the nil ast.Stmt.
NoStmt == [kind |-> "nil", xt |-> NilType, e |-> NoExpr]

\* ss := &ScenarioSet{TestCase: tc}: every field has its zero value.
NewScenarioSet ==
    [ds |-> "none", typ |-> NoType, scenarios |-> 0, runner |-> NoStmt, nameField |-> ""]

\* IdentifyScenarioSet has not been called.
NoScenario ==
    /\ spc = "idle"
    /\ examined = 0
    /\ ss = NewScenarioSet
    /\ rejected = 0
    /\ helperLoop = FALSE

\* The CSV file is empty and no FileWriter has it open.
NoCsv ==
    /\ cfile = <<>>
    /\ copen = FALSE
    /\ once = FALSE
    /\ existingHeaders = <<>>
    /\ cheader = "none"
    /\ clog = <<>>
    /\ cn = 0

\* The JSON file is empty and no FileWriter has it open.
NoJson ==
    /\ jfile = <<>>
    /\ jopen = FALSE
    /\ jonce = FALSE
    /\ alreadyWritten = <<>>
    /\ jlog = <<>>

\* The t.Run call statement that has not been built.
NoRunCall == [recv |-> "", name |-> [x |-> "", sel |-> ""], param |-> "", body |-> <<>>]

\* No subtest synthesis is under way.
NoSynth ==
    /\ tester = ""
    /\ loopType = "range"
    /\ loopKey = "nil"
    /\ loopValue = "nil"
    /\ ssNameField = ""
    /\ firstString = ""
    /\ runnerStmts = <<>>
    /\ helperCopy = FALSE
    /\ tpc = "idle"
    /\ genStatus = "none"
    /\ tRun = NoRunCall
    /\ wrapped = FALSE
    /\ astKey = "nil"

Quiet == InitWriter /\ NoExpansion /\ NoScenario /\ NoCsv /\ NoJson /\ NoSynth

InitParse == InitDriver /\ InitRefactorer /\ InitVisitor /\ Quiet

\* g.Go without the semaphore: every goroutine starts at once.
GoUnlimited ==
    /\ mpc = "schedule"
    /\ nextDir <= nDirs
    /\ sem' = sem + 1
    /\ wpc' = [wpc EXCEPT ![nextDir] = "clone"]
    /\ nextDir' = nextDir + 1
    /\ UNCHANGED nonDriver
    /\ UNCHANGED <<splitByDir, threads, nDirs, mpc, parseRet, closeCount, gerr, cancelled,
                   wret, files, loaded, visits, reports, firstErr, outOfOrder, sawCancel>>

\* g.Go that admits one goroutine more than the limit.
GoOffByOne ==
    /\ mpc = "schedule"
    /\ nextDir <= nDirs
    /\ sem <= threads
    /\ sem' = sem + 1
    /\ wpc' = [wpc EXCEPT ![nextDir] = "clone"]
    /\ nextDir' = nextDir + 1
    /\ UNCHANGED nonDriver
    /\ UNCHANGED <<splitByDir, threads, nDirs, mpc, parseRet, closeCount, gerr, cancelled,
                   wret, files, loaded, visits, reports, firstErr, outOfOrder, sawCancel>>

\* One iteration of the range loop over the directory entries: g.Go blocks until
\* the semaphore has a free slot, then starts the goroutine of the next
\* subdirectory.
Go ==
    /\ mpc = "schedule"
    /\ nextDir <= nDirs
    /\ sem < threads
    /\ sem' = sem + 1
    /\ wpc' = [wpc EXCEPT ![nextDir] = "clone"]
    /\ nextDir' = nextDir + 1
    /\ UNCHANGED nonDriver
    /\ UNCHANGED <<splitByDir, threads, nDirs, mpc, parseRet, closeCount, gerr, cancelled,
                   wret, files, loaded, visits, reports, firstErr, outOfOrder, sawCancel>>

\* The loop is over. Without any subdirectory Parse warns and returns nil (the
\* deferred cancel() runs); otherwise it goes on to g.Wait().
EndSchedule ==
    /\ mpc = "schedule"
    /\ nextDir > nDirs
    /\ IF nDirs = 0
         THEN /\ mpc' = "returned"
              /\ parseRet' = Nil
              /\ cancelled' = TRUE
         ELSE /\ mpc' = "wait"
              /\ UNCHANGED <<parseRet, cancelled>>
    /\ UNCHANGED nonDriver
    /\ UNCHANGED <<splitByDir, threads, nDirs, nextDir, closeCount, sem, gerr, wpc, wret,
                   files, loaded, visits, reports, firstErr, outOfOrder, sawCancel>>

\* The worker function's first statement: newTask := t.Clone().
Clone(w) ==
    /\ wpc[w] = "clone"
    /\ wpc' = [wpc EXCEPT ![w] = "check0"]
    /\ UNCHANGED nonDriver
    /\ UNCHANGED <<splitByDir, threads, nDirs, mpc, nextDir, parseRet, closeCount, sem,
                   gerr, cancelled, wret, files, loaded, visits, reports, firstErr,
                   outOfOrder, sawCancel>>

\* select { case <-ctx.Done(): return ctx.Err(); default: } at position `at`:
\* the worker's check before any work ("check0", which returns gctx.Err() bare)
\* and parseDir's check before starting ("check1", whose error the worker wraps).
Check(w, at, then) ==
    /\ wpc[w] = at
    /\ sawCancel' = [sawCancel EXCEPT ![w] = @ \/ CtxDone(w)]
    /\ IF CtxDone(w)
         THEN /\ wpc' = [wpc EXCEPT ![w] = "ret"]
              /\ wret' = [wret EXCEPT ![w] = Canceled(IF at = "check0" THEN 0 ELSE w)]
         ELSE /\ wpc' = [wpc EXCEPT ![w] = then]
              /\ UNCHANGED wret
    /\ UNCHANGED nonDriver
    /\ UNCHANGED <<splitByDir, threads, nDirs, mpc, nextDir, parseRet, closeCount, sem,
                   gerr, cancelled, files, loaded, visits, reports, firstErr, outOfOrder>>

\* packages.Load that treats an empty result like any other.
LoadReportingEmpty(w) ==
    /\ wpc[w] = "load"
    /\ \E outcome \in {"err", "empty", "pkgs"} :
         /\ loaded' = [loaded EXCEPT ![w] = outcome]
         /\ IF outcome = "err"
              THEN /\ wpc' = [wpc EXCEPT ![w] = "ret"]
                   /\ wret' = [wret EXCEPT ![w] = LoadErr(w)]
                   /\ UNCHANGED files
              ELSE /\ wpc' = [wpc EXCEPT ![w] = "files"]
                   /\ \E n \in 0 .. MaxFiles :
                        files' = [files EXCEPT ![w] = IF outcome = "empty" THEN 0 ELSE n]
                   /\ UNCHANGED wret
    /\ UNCHANGED nonDriver
    /\ UNCHANGED <<splitByDir, threads, nDirs, mpc, nextDir, parseRet, closeCount, sem,
                   gerr, cancelled, visits, reports, firstErr, outOfOrder, sawCancel>>

\* task.SetProjectDir(dir) and packages.Load(cfg, dir + "/..."): an error is
\* returned wrapped; no package at all makes parseDir warn and return nil;
\* otherwise the packages hold some number of syntax files.
Load(w) ==
    /\ wpc[w] = "load"
    /\ \E outcome \in {"err", "empty", "pkgs"} :
         /\ loaded' = [loaded EXCEPT ![w] = outcome]
         /\ CASE outcome = "err" ->
                   /\ wpc' = [wpc EXCEPT ![w] = "ret"]
                   /\ wret' = [wret EXCEPT ![w] = LoadErr(w)]
                   /\ UNCHANGED files
              [] outcome = "empty" ->
                   /\ wpc' = [wpc EXCEPT ![w] = "ret"]
                   /\ wret' = [wret EXCEPT ![w] = Nil]
                   /\ UNCHANGED files
              [] outcome = "pkgs" ->
                   /\ wpc' = [wpc EXCEPT ![w] = "files"]
                   /\ \E n \in 0 .. MaxFiles : files' = [files EXCEPT ![w] = n]
                   /\ UNCHANGED wret
    /\ UNCHANGED nonDriver
    /\ UNCHANGED <<splitByDir, threads, nDirs, mpc, nextDir, parseRet, closeCount, sem,
                   gerr, cancelled, visits, reports, firstErr, outOfOrder, sawCancel>>

\* The head of the file loop without its check-point.
NextFileIgnoringCancel(w) ==
    /\ wpc[w] = "files"
    /\ files[w] > 0
    /\ sawCancel' = [sawCancel EXCEPT ![w] = @ \/ CtxDone(w)]
    /\ \E skip \in BOOLEAN :
         IF skip
           THEN /\ files' = [files EXCEPT ![w] = @ - 1]
                /\ UNCHANGED wpc
           ELSE /\ wpc' = [wpc EXCEPT ![w] = "visit"]
                /\ UNCHANGED files
    /\ UNCHANGED nonDriver
    /\ UNCHANGED <<splitByDir, threads, nDirs, mpc, nextDir, parseRet, closeCount, sem,
                   gerr, cancelled, wret, loaded, visits, reports, firstErr, outOfOrder>>

\* The head of one iteration over pkg.Syntax: the check-point before each file,
\* then either the file is skipped (it lies under vendor/ or is named by a
\* package error) or it goes on to task.Visit.
NextFile(w) ==
    /\ wpc[w] = "files"
    /\ files[w] > 0
    /\ sawCancel' = [sawCancel EXCEPT ![w] = @ \/ CtxDone(w)]
    /\ IF CtxDone(w)
         THEN /\ wpc' = [wpc EXCEPT ![w] = "ret"]
              /\ wret' = [wret EXCEPT ![w] = Canceled(w)]
              /\ UNCHANGED files
         ELSE /\ \E skip \in BOOLEAN :
                   IF skip
                     THEN /\ files' = [files EXCEPT ![w] = @ - 1]
                          /\ UNCHANGED wpc
                     ELSE /\ wpc' = [wpc EXCEPT ![w] = "visit"]
                          /\ UNCHANGED files
              /\ UNCHANGED wret
    /\ UNCHANGED nonDriver
    /\ UNCHANGED <<splitByDir, threads, nDirs, mpc, nextDir, parseRet, closeCount, sem,
                   gerr, cancelled, loaded, visits, reports, firstErr, outOfOrder>>

\* task.Visit(file, fset, pkg) on the run's own task.
Visit(w) ==
    /\ wpc[w] = "visit"
    /\ visits' = [visits EXCEPT ![w] = @ + 1]
    /\ files' = [files EXCEPT ![w] = @ - 1]
    /\ wpc' = [wpc EXCEPT ![w] = "files"]
    /\ UNCHANGED nonDriver
    /\ UNCHANGED <<splitByDir, threads, nDirs, mpc, nextDir, parseRet, closeCount, sem,
                   gerr, cancelled, wret, loaded, reports, firstErr, outOfOrder, sawCancel>>

\* All files iterated: task.ReportResults() on the run's own task (its error is
\* logged, never returned), and parseDir returns nil.
Report(w) ==
    /\ wpc[w] = "files"
    /\ files[w] = 0
    /\ reports' = [reports EXCEPT ![w] = @ + 1]
    /\ outOfOrder' = (outOfOrder \/ \E d \in Tasks : d > w /\ reports[d] > 0)
    /\ wpc' = [wpc EXCEPT ![w] = "ret"]
    /\ wret' = [wret EXCEPT ![w] = Nil]
    /\ UNCHANGED nonDriver
    /\ UNCHANGED <<splitByDir, threads, nDirs, mpc, nextDir, parseRet, closeCount, sem,
                   gerr, cancelled, files, loaded, visits, firstErr, sawCancel>>

\* errOnce that lets every error overwrite g.err.
FinishLastErrorWins(w) ==
    /\ w # 0
    /\ wpc[w] = "ret"
    /\ IF wret[w] # Nil
         THEN /\ firstErr' = IF firstErr = 0 THEN w ELSE firstErr
              /\ gerr' = wret[w]
              /\ cancelled' = TRUE
         ELSE UNCHANGED <<firstErr, gerr, cancelled>>
    /\ sem' = sem - 1
    /\ wpc' = [wpc EXCEPT ![w] = "done"]
    /\ UNCHANGED nonDriver
    /\ UNCHANGED <<splitByDir, threads, nDirs, mpc, nextDir, parseRet, closeCount, wret,
                   files, loaded, visits, reports, outOfOrder, sawCancel>>

\* The errgroup's goroutine wrapper after the worker function has returned: a
\* non-nil error goes through errOnce (the first one is kept in g.err and cancels
\* gctx), then g.done() frees the semaphore slot and the wait group.
Finish(w) ==
    /\ w # 0
    /\ wpc[w] = "ret"
    /\ IF wret[w] # Nil
         THEN /\ firstErr' = IF firstErr = 0 THEN w ELSE firstErr
              /\ IF gerr = Nil
                   THEN /\ gerr' = wret[w]
                        /\ cancelled' = TRUE
                   ELSE UNCHANGED <<gerr, cancelled>>
         ELSE UNCHANGED <<firstErr, gerr, cancelled>>
    /\ sem' = sem - 1
    /\ wpc' = [wpc EXCEPT ![w] = "done"]
    /\ UNCHANGED nonDriver
    /\ UNCHANGED <<splitByDir, threads, nDirs, mpc, nextDir, parseRet, closeCount, wret,
                   files, loaded, visits, reports, outOfOrder, sawCancel>>

\* g.Wait(): returns when every started goroutine is done, cancels gctx and
\* yields g.err. A non-nil error is returned by Parse at once.
Wait ==
    /\ mpc = "wait"
    /\ \A d \in 1 .. nDirs : wpc[d] = "done"
    /\ cancelled' = TRUE
    /\ IF gerr # Nil
         THEN /\ mpc' = "returned"
              /\ parseRet' = gerr
         ELSE /\ mpc' = "close"
              /\ UNCHANGED parseRet
    /\ UNCHANGED nonDriver
    /\ UNCHANGED <<splitByDir, threads, nDirs, nextDir, closeCount, sem, gerr, wpc, wret,
                   files, loaded, visits, reports, firstErr, outOfOrder, sawCancel>>

\* splitByDir = false: parseDir(context.Background(), t, rootDir) has returned in
\* the main goroutine; its error is returned by Parse at once.
SingleDone ==
    /\ mpc = "single"
    /\ wpc[0] = "ret"
    /\ wpc' = [wpc EXCEPT ![0] = "done"]
    /\ IF wret[0] # Nil
         THEN /\ mpc' = "returned"
              /\ parseRet' = wret[0]
         ELSE /\ mpc' = "close"
              /\ UNCHANGED parseRet
    /\ UNCHANGED nonDriver
    /\ UNCHANGED <<splitByDir, threads, nDirs, nextDir, closeCount, sem, gerr, cancelled,
                   wret, files, loaded, visits, reports, firstErr, outOfOrder, sawCancel>>

\* The tail of Parse: t.Close() on the original task, return nil.
Close ==
    /\ mpc = "close"
    /\ closeCount' = closeCount + 1
    /\ mpc' = "returned"
    /\ parseRet' = Nil
    /\ UNCHANGED nonDriver
    /\ UNCHANGED <<splitByDir, threads, nDirs, nextDir, sem, gerr, cancelled, wpc, wret,
                   files, loaded, visits, reports, firstErr, outOfOrder, sawCancel>>

NextParse ==
    \/ Go
    \/ EndSchedule
    \/ Wait
    \/ SingleDone
    \/ Close
    \/ \E w \in Tasks :
         \/ Clone(w)
         \/ Check(w, "check0", "check1")
         \/ Check(w, "check1", "load")
         \/ Load(w)
         \/ NextFile(w)
         \/ Visit(w)
         \/ Report(w)
         \/ Finish(w)

SpecParse == InitParse /\ [][NextParse]_vars

\* ------------------------------------------------------------ Visit taken apart
\* The largest number of subdirectories in SpecVisit.
VisitDirs == 2
\* The largest number of valid test functions among a file's declarations.
MaxTestFuncs == 2

\* File names, as sequences of pieces of text: a file of the project, a file
\* under vendor/, a file of a directory whose name only starts with "vendor", and
\* a file whose path holds a colon.
Paths ==
    { <<"pkg", "/", "a.go">>,
      <<"vendor", "/", "a.go">>,
      <<"vendor", "s", "/", "a.go">>,
      <<"c", ":", "/", "a.go">> }

\* strings.Contains(s, sub).
Contains(s, sub) ==
    \E i \in 1 .. Len(s) + 1 :
        /\ i + Len(sub) - 1 <= Len(s)
        /\ SubSeq(s, i, i + Len(sub) - 1) = sub

\* filepath.Join(elems...): empty elements are ignored, the others are joined
\* by the separator.
RECURSIVE Join(_)
Join(elems) ==
    IF elems = <<>> THEN <<>>
    ELSE LET rest == Join(Tail(elems)) IN
         IF Head(elems) = <<>> THEN rest
         ELSE IF rest = <<>> THEN Head(elems)
         ELSE Head(elems) \o <<"/">> \o rest

\* What parseDir looks for in a file name to tell a vendored file.
VendorNeedle == Join(<< <<"vendor">>, <<>> >>)

\* A file lies in a vendor/ directory.
InVendorDir(filePath) == Contains(filePath, <<"vendor", "/">>)

\* The Pos of a packages.Error raised in a file: "file:line:col".
ErrorPos(filePath) == filePath \o <<":", "12", ":", "3">>

\* strings.Index(s, c): the index (from 0) of the first c in s, -1 without any.
Index(s, c) ==
    IF \E i \in 1 .. Len(s) : s[i] = c
      THEN (CHOOSE i \in 1 .. Len(s) : s[i] = c /\ \A j \in 1 .. i - 1 : s[j] # c) - 1
      ELSE -1

\* The set errFiles that parseDir builds from the package's errors: the text
\* before the first colon of every position that has one past its first byte.
ErrFiles(positions) ==
    { SubSeq(pos, 1, Index(pos, ":")) : pos \in {q \in positions : Index(q, ":") > 0} }

\* A goroutine panics or the runtime throws: the process dies, Parse never
\* returns and no goroutine takes another step.
Crash(kind) ==
    /\ fatal' = kind
    /\ mpc' = "crashed"
    /\ wpc' = [t \in Tasks |-> "crashed"]

\* The head of one iteration over pkg.Syntax: the check-point, then the two
\* tests on the file's name that skip it, else the file goes on to task.Visit.
IterateFile(w) ==
    /\ wpc[w] = "files"
    /\ files[w] > 0
    /\ sawCancel' = [sawCancel EXCEPT ![w] = @ \/ CtxDone(w)]
    /\ IF CtxDone(w)
         THEN /\ wpc' = [wpc EXCEPT ![w] = "ret"]
              /\ wret' = [wret EXCEPT ![w] = Canceled(w)]
              /\ UNCHANGED <<files, skippedOther, visitedExcluded>>
         ELSE /\ \E filePath \in Paths, hasError \in BOOLEAN :
                   LET errFiles == ErrFiles(IF hasError THEN {ErrorPos(filePath)} ELSE {}) IN
                   IF Contains(filePath, VendorNeedle) \/ filePath \in errFiles
                     THEN /\ files' = [files EXCEPT ![w] = @ - 1]
                          /\ skippedOther' =
                                (skippedOther \/ (~InVendorDir(filePath) /\ ~hasError))
                          /\ UNCHANGED <<wpc, visitedExcluded>>
                     ELSE /\ wpc' = [wpc EXCEPT ![w] = "visit"]
                          /\ visitedExcluded' =
                                (visitedExcluded \/ InVendorDir(filePath) \/ hasError)
                          /\ UNCHANGED <<files, skippedOther>>
              /\ UNCHANGED wret
    /\ UNCHANGED <<splitByDir, threads, nDirs, mpc, nextDir, parseRet, closeCount, sem,
                   gerr, cancelled, loaded, visits, reports, firstErr, outOfOrder>>
    /\ UNCHANGED <<tleft, fatal>>
    /\ UNCHANGED nonVisit

\* task.Visit(file, fset, pkg) is entered: the declarations of the file hold
\* some number of valid test functions.
VisitBegin(w) ==
    /\ wpc[w] = "visit"
    /\ visits' = [visits EXCEPT ![w] = @ + 1]
    /\ \E n \in 0 .. MaxTestFuncs : tleft' = [tleft EXCEPT ![w] = n]
    /\ wpc' = [wpc EXCEPT ![w] = "decls"]
    /\ UNCHANGED <<splitByDir, threads, nDirs, mpc, nextDir, parseRet, closeCount, sem,
                   gerr, cancelled, wret, files, loaded, reports, firstErr, outOfOrder,
                   sawCancel>>
    /\ UNCHANGED <<skippedOther, visitedExcluded, fatal>>
    /\ UNCHANGED nonVisit

\* The next valid test function: CreateTestCase and the start of Analyze. With
\* nil syntax data Analyze returns nil, and Visit's analysisResult.IsTableDriven()
\* dereferences it; otherwise the statements are expanded, which looks up the
\* definition of every call in findDefinitionMemo.
AnalyzeTest(w) ==
    /\ wpc[w] = "decls"
    /\ tleft[w] > 0
    /\ \E outcome \in {"nilResult", "noCalls", "calls"} :
         CASE outcome = "nilResult" -> Crash("nilResult")
           [] outcome = "noCalls" ->
                /\ wpc' = [wpc EXCEPT ![w] = "scenarios"]
                /\ UNCHANGED <<fatal, mpc>>
           [] outcome = "calls" ->
                /\ wpc' = [wpc EXCEPT ![w] = "memo"]
                /\ UNCHANGED <<fatal, mpc>>
    /\ UNCHANGED <<splitByDir, threads, nDirs, nextDir, parseRet, closeCount, sem, gerr,
                   cancelled, wret, files, loaded, visits, reports, firstErr, outOfOrder,
                   sawCancel>>
    /\ UNCHANGED <<tleft, skippedOther, visitedExcluded>>
    /\ UNCHANGED nonVisit

\* FindDefinition ends its read or write of the package-level map
\* findDefinitionMemo, which no lock guards. When another goroutine is inside an
\* access of its own the Go runtime may detect it and throw ("concurrent map
\* read and map write"), or the access may go through.
MemoAccess(w) ==
    /\ wpc[w] = "memo"
    /\ \E thrown \in BOOLEAN :
         /\ thrown => \E o \in Tasks \ {w} : wpc[o] = "memo"
         /\ IF thrown
              THEN Crash("race")
              ELSE /\ wpc' = [wpc EXCEPT ![w] = "scenarios"]
                   /\ UNCHANGED <<fatal, mpc>>
    /\ UNCHANGED <<splitByDir, threads, nDirs, nextDir, parseRet, closeCount, sem, gerr,
                   cancelled, wret, files, loaded, visits, reports, firstErr, outOfOrder,
                   sawCancel>>
    /\ UNCHANGED <<tleft, skippedOther, visitedExcluded>>
    /\ UNCHANGED nonVisit

\* IdentifyScenarioSet: with a map as the scenario structure IdentifyScenarios
\* calls Underlying() on tc.TypeOf(kvExpr.Value), which is nil when the type
\* information of the expression is missing.
IdentifyTest(w) ==
    /\ wpc[w] = "scenarios"
    /\ \E missingType \in BOOLEAN :
         IF missingType
           THEN Crash("missingType")
           ELSE /\ wpc' = [wpc EXCEPT ![w] = "refactor"]
                /\ UNCHANGED <<fatal, mpc>>
    /\ UNCHANGED <<splitByDir, threads, nDirs, nextDir, parseRet, closeCount, sem, gerr,
                   cancelled, wret, files, loaded, visits, reports, firstErr, outOfOrder,
                   sawCancel>>
    /\ UNCHANGED <<tleft, skippedOther, visitedExcluded>>
    /\ UNCHANGED nonVisit

\* AttemptRefactoring and SaveAsJSON for the test: refactorToSubtests asserts
\* that the key and the value of the range loop are identifiers, which panics
\* for any other assignable expression; every other failure ends in a generation
\* status or a logged error, and Visit goes on to the next declaration.
RefactorTest(w) ==
    /\ wpc[w] = "refactor"
    /\ \E keyIsIdent \in BOOLEAN :
         IF ~keyIsIdent
           THEN /\ Crash("badKey")
                /\ UNCHANGED tleft
           ELSE /\ wpc' = [wpc EXCEPT ![w] = "decls"]
                /\ tleft' = [tleft EXCEPT ![w] = @ - 1]
                /\ UNCHANGED <<fatal, mpc>>
    /\ UNCHANGED <<splitByDir, threads, nDirs, nextDir, parseRet, closeCount, sem, gerr,
                   cancelled, wret, files, loaded, visits, reports, firstErr, outOfOrder,
                   sawCancel>>
    /\ UNCHANGED <<skippedOther, visitedExcluded>>
    /\ UNCHANGED nonVisit

\* The loop over the declarations is over: Visit returns to the file loop.
VisitEnd(w) ==
    /\ wpc[w] = "decls"
    /\ tleft[w] = 0
    /\ files' = [files EXCEPT ![w] = @ - 1]
    /\ wpc' = [wpc EXCEPT ![w] = "files"]
    /\ UNCHANGED <<splitByDir, threads, nDirs, mpc, nextDir, parseRet, closeCount, sem,
                   gerr, cancelled, wret, loaded, visits, reports, firstErr, outOfOrder,
                   sawCancel>>
    /\ UNCHANGED vvars
    /\ UNCHANGED nonVisit

InitVisit == InitParse /\ nDirs <= VisitDirs

NextVisit ==
    \/ Go
    \/ EndSchedule
    \/ Wait
    \/ SingleDone
    \/ Close
    \/ \E w \in Tasks :
         \/ Clone(w)
         \/ Check(w, "check0", "check1")
         \/ Check(w, "check1", "load")
         \/ Load(w)
         \/ IterateFile(w)
         \/ VisitBegin(w)
         \/ AnalyzeTest(w)
         \/ MemoAccess(w)
         \/ IdentifyTest(w)
         \/ RefactorTest(w)
         \/ VisitEnd(w)
         \/ Report(w)
         \/ Finish(w)

SpecVisit == InitVisit /\ [][NextVisit]_vars

\* ------------------------------------------------------------ the refactorer
\* The loops that format.Node prints wrapped in t.Run for file f: those of the
\* tests whose enclosing function lives in f and whose node held by the file's
\* declaration list has been rewritten.
AstRefd(f) ==
    {t \in Tests : /\ efile[t] = f
                   /\ \/ inFile[t] = "original" /\ origMut[t]
                      \/ inFile[t] = "copy" /\ copyMut[t]}

\* What a failing os.WriteFile may leave of a file: its old bytes, or a truncated
\* or partly written file.
AfterFailedWrite(f) == {disk[f], Truncated}

\* AttemptRefactoring up to the call of refactorToSubtests, and the latter's own
\* nil checks: the nil and fast paths return at once, with the generation status
\* they set; a candidate for the subtest strategy goes on to synthesis.
Call ==
    /\ rpc \in {"idle", "returned"}
    /\ cur < MaxTests
    /\ cur' = cur + 1
    /\ refs' = <<>>
    /\ idx' = 1
    /\ savedKeys' = {}
    /\ diskAtCall' = disk
    /\ written' = {}
    /\ restoreTried' = {}
    /\ cloned' = FALSE
    /\ cleanups' = 0
    /\ execs' = 0
    /\ diskFailed' = FALSE
    /\ cloneOutcome' = "none"
    /\ \E tf \in SrcFiles : tfile' = [tfile EXCEPT ![cur + 1] = tf]
    /\ \E path \in {"nilTestCase", "nilFileSet", "strategyNone", "strategyUnknown",
                    "notCandidate", "nilFuncDecl", "candidate"} :
         /\ status' = IF path \in {"nilTestCase", "nilFileSet", "nilFuncDecl"}
                        THEN "fail" ELSE "none"
         /\ rpc' = IF path = "candidate" THEN "clone" ELSE "returned"
    /\ UNCHANGED <<saved, disk, efile, inFile, runner, origMut, copyMut>>
    /\ UNCHANGED nonRefactorer

\* cloneHelperFunction(ss.Runner, ar): nothing happens when the runner is in no
\* function of the package, when it is in the test function itself, when the
\* declaration cannot be replaced, or (the replacement undone) when the runner
\* has no statement of the same index in the copy; otherwise the file now holds
\* the deep copy, ss.Runner points into it and the cleanup closure exists.
CloneHelper ==
    /\ rpc = "clone"
    /\ \E outcome \in {"notInPackage", "self", "replaceFailed", "indexFailed", "cloned"},
          ef \in SrcFiles :
         /\ outcome = "self" => ef = tfile[cur]
         /\ efile' = [efile EXCEPT ![cur] = ef]
         /\ cloneOutcome' = outcome
         /\ IF outcome = "cloned"
              THEN /\ inFile' = [inFile EXCEPT ![cur] = "copy"]
                   /\ runner' = [runner EXCEPT ![cur] = "copy"]
                   /\ cloned' = TRUE
              ELSE UNCHANGED <<inFile, runner, cloned>>
    /\ rpc' = "synth"
    /\ UNCHANGED <<cur, status, refs, idx, savedKeys, saved, disk, tfile, origMut, copyMut,
                   diskAtCall, written, restoreTried, cleanups, execs, diskFailed>>
    /\ UNCHANGED nonRefactorer

\* AttemptRefactoring that goes on to execute the test whatever the status of
\* the synthesis.
SynthesizeThenExecute ==
    /\ rpc = "synth"
    /\ \E loop \in {"range", "rangeNilKeyOrValue", "otherStmt"}, named \in BOOLEAN :
         CASE loop # "range" ->
                /\ status' = "fail"
                /\ rpc' = "exec1"
                /\ UNCHANGED <<refs, origMut, copyMut>>
           [] loop = "range" /\ ~named ->
                /\ status' = "badFields"
                /\ rpc' = "exec1"
                /\ UNCHANGED <<refs, origMut, copyMut>>
           [] loop = "range" /\ named ->
                /\ status' = "success"
                /\ rpc' = "exec1"
                /\ IF runner[cur] = "copy"
                     THEN copyMut' = [copyMut EXCEPT ![cur] = TRUE] /\ UNCHANGED origMut
                     ELSE origMut' = [origMut EXCEPT ![cur] = TRUE] /\ UNCHANGED copyMut
                /\ refs' = <<[file |-> IF cloned THEN efile[cur] ELSE tfile[cur],
                              cleanup |-> cloned]>>
    /\ UNCHANGED <<cur, idx, savedKeys, saved, disk, tfile, efile, inFile, runner,
                   diskAtCall, written, restoreTried, cloned, cleanups, execs, diskFailed,
                   cloneOutcome>>
    /\ UNCHANGED nonRefactorer

\* The rest of refactorToSubtests and AttemptRefactoring's handling of its
\* result: a loop that is no range loop with key and value gives status fail, a
\* scenario type without a name field gives badFields, and both return at once;
\* otherwise the loop body of the node ss.Runner points into is replaced by the
\* t.Run call and the one RefactoredFunction is returned with status success.
Synthesize ==
    /\ rpc = "synth"
    /\ \E loop \in {"range", "rangeNilKeyOrValue", "otherStmt"}, named \in BOOLEAN :
         CASE loop # "range" ->
                /\ status' = "fail"
                /\ rpc' = "returned"
                /\ UNCHANGED <<refs, origMut, copyMut>>
           [] loop = "range" /\ ~named ->
                /\ status' = "badFields"
                /\ rpc' = "returned"
                /\ UNCHANGED <<refs, origMut, copyMut>>
           [] loop = "range" /\ named ->
                /\ status' = "success"
                /\ rpc' = "exec1"
                /\ IF runner[cur] = "copy"
                     THEN copyMut' = [copyMut EXCEPT ![cur] = TRUE] /\ UNCHANGED origMut
                     ELSE origMut' = [origMut EXCEPT ![cur] = TRUE] /\ UNCHANGED copyMut
                /\ refs' = <<[file |-> IF cloned THEN efile[cur] ELSE tfile[cur],
                              cleanup |-> cloned]>>
    /\ UNCHANGED <<cur, idx, savedKeys, saved, disk, tfile, efile, inFile, runner,
                   diskAtCall, written, restoreTried, cloned, cleanups, execs, diskFailed,
                   cloneOutcome>>
    /\ UNCHANGED nonRefactorer

\* tc.Execute() before the rewrite; whatever it returns is only recorded.
ExecuteOriginal ==
    /\ rpc = "exec1"
    /\ execs' = execs + 1
    /\ rpc' = "save"
    /\ idx' = 1
    /\ UNCHANGED <<cur, status, refs, savedKeys, saved, disk, tfile, efile, inFile, runner,
                   origMut, copyMut, diskAtCall, written, restoreTried, cloned, cleanups,
                   diskFailed, cloneOutcome>>
    /\ UNCHANGED nonRefactorer

\* One iteration of the loop that saves and rewrites the files: a file already
\* saved is skipped; os.ReadFile keeps the original bytes, SaveFileContents
\* formats the file's AST and writes it. A failure of either returns *rr at once.
SaveFile ==
    /\ rpc = "save"
    /\ idx <= Len(refs)
    /\ LET f == refs[idx].file IN
         IF f \in savedKeys
           THEN /\ idx' = idx + 1
                /\ UNCHANGED <<rpc, savedKeys, saved, disk, written, diskFailed>>
           ELSE \E outcome \in {"readFailed", "formatFailed", "writeFailed", "ok"} :
                  CASE outcome = "readFailed" ->
                         /\ rpc' = "returned"
                         /\ diskFailed' = TRUE
                         /\ UNCHANGED <<idx, savedKeys, saved, disk, written>>
                    [] outcome = "formatFailed" ->
                         /\ rpc' = "returned"
                         /\ diskFailed' = TRUE
                         /\ savedKeys' = savedKeys \cup {f}
                         /\ saved' = [saved EXCEPT ![f] = disk[f]]
                         /\ UNCHANGED <<idx, disk, written>>
                    [] outcome = "writeFailed" ->
                         /\ rpc' = "returned"
                         /\ diskFailed' = TRUE
                         /\ savedKeys' = savedKeys \cup {f}
                         /\ saved' = [saved EXCEPT ![f] = disk[f]]
                         /\ \E left \in AfterFailedWrite(f) :
                              /\ disk' = [disk EXCEPT ![f] = left]
                              /\ written' = IF left = disk[f] THEN written
                                            ELSE written \cup {f}
                         /\ UNCHANGED idx
                    [] outcome = "ok" ->
                         /\ savedKeys' = savedKeys \cup {f}
                         /\ saved' = [saved EXCEPT ![f] = disk[f]]
                         /\ disk' = [disk EXCEPT ![f] = [ok |-> TRUE, refd |-> AstRefd(f)]]
                         /\ written' = written \cup {f}
                         /\ idx' = idx + 1
                         /\ UNCHANGED <<rpc, diskFailed>>
    /\ UNCHANGED <<cur, status, refs, tfile, efile, inFile, runner, origMut, copyMut,
                   diskAtCall, restoreTried, cloned, cleanups, execs, cloneOutcome>>
    /\ UNCHANGED nonRefactorer

\* tc.Execute() after the rewrite of every file.
ExecuteRefactored ==
    /\ rpc = "save"
    /\ idx > Len(refs)
    /\ execs' = execs + 1
    /\ rpc' = "restore"
    /\ idx' = 1
    /\ UNCHANGED <<cur, status, refs, savedKeys, saved, disk, tfile, efile, inFile, runner,
                   origMut, copyMut, diskAtCall, written, restoreTried, cloned, cleanups,
                   diskFailed, cloneOutcome>>
    /\ UNCHANGED nonRefactorer

\* One iteration of the restoring loop: os.WriteFile of the saved bytes, whose
\* failure returns *rr at once, then refactoring.Cleanup(), whose closure puts
\* the original declaration back into the file and the original runner into the
\* ScenarioSet.
RestoreFile ==
    /\ rpc = "restore"
    /\ idx <= Len(refs)
    /\ LET f == refs[idx].file IN
         /\ restoreTried' = restoreTried \cup {f}
         /\ \E ok \in BOOLEAN :
              IF ok
                THEN /\ disk' = [disk EXCEPT ![f] = saved[f]]
                     /\ IF refs[idx].cleanup
                          THEN /\ inFile' = [inFile EXCEPT ![cur] = "original"]
                               /\ runner' = [runner EXCEPT ![cur] = "original"]
                               /\ cleanups' = cleanups + 1
                          ELSE UNCHANGED <<inFile, runner, cleanups>>
                     /\ idx' = idx + 1
                     /\ UNCHANGED <<rpc, diskFailed>>
                ELSE /\ \E left \in AfterFailedWrite(f) : disk' = [disk EXCEPT ![f] = left]
                     /\ rpc' = "returned"
                     /\ diskFailed' = TRUE
                     /\ UNCHANGED <<idx, inFile, runner, cleanups>>
    /\ UNCHANGED <<cur, status, refs, savedKeys, saved, tfile, efile, origMut, copyMut,
                   diskAtCall, written, cloned, execs, cloneOutcome>>
    /\ UNCHANGED nonRefactorer

\* The restoring loop is over: return *rr.
Return ==
    /\ rpc = "restore"
    /\ idx > Len(refs)
    /\ rpc' = "returned"
    /\ UNCHANGED <<cur, status, refs, idx, savedKeys, saved, disk, tfile, efile, inFile,
                   runner, origMut, copyMut, diskAtCall, written, restoreTried, cloned,
                   cleanups, execs, diskFailed, cloneOutcome>>
    /\ UNCHANGED nonRefactorer

InitRefactor ==
    /\ InitRefactorer
    /\ InitDriver
    /\ InitVisitor
    /\ Quiet
    /\ ~splitByDir /\ threads = 1 /\ nDirs = 0

NextRefactor ==
    \/ Call
    \/ CloneHelper
    \/ Synthesize
    \/ ExecuteOriginal
    \/ SaveFile
    \/ ExecuteRefactored
    \/ RestoreFile
    \/ Return

SpecRefactor == InitRefactor /\ [][NextRefactor]_vars

\* ------------------------------------------------------------ the FileWriter
\* A clone calls Write (one item), WriteMultiple (a slice of n items) or Close on
\* the writer it shares with the other clones. Write and WriteMultiple return at
\* once for nil data; every other call goes on to writer.mu.Lock().
CallWriter(c) ==
    /\ cpc[c] = "idle"
    /\ calls < MaxCalls
    /\ calls' = calls + 1
    /\ \E method \in {"Write", "WriteMultiple", "Close"}, isNil \in BOOLEAN,
          n \in 0 .. MaxBatch :
         /\ method = "Close" => ~isNil /\ n = 0
         /\ (method = "Write" /\ ~isNil) => n = 1
         /\ isNil => n = 0
         /\ IF isNil
              THEN UNCHANGED <<cpc, cop, cleft, ccall>>
              ELSE /\ cpc' = [cpc EXCEPT ![c] = "waiting"]
                   /\ cop' = [cop EXCEPT ![c] = method]
                   /\ cleft' = [cleft EXCEPT ![c] = n]
                   /\ ccall' = [ccall EXCEPT ![c] = calls + 1]
    /\ UNCHANGED <<mu, fopen, log>>
    /\ UNCHANGED nonWriter

\* A Lock that does not wait for the mutex to be free.
LockWithoutWaiting(c) ==
    /\ cpc[c] = "waiting"
    /\ mu' = TRUE
    /\ cpc' = [cpc EXCEPT ![c] = "locked"]
    /\ UNCHANGED <<fopen, log, calls, cop, cleft, ccall>>
    /\ UNCHANGED nonWriter

\* writer.mu.Lock() returns: the mutex was free and the clone holds it now.
Lock(c) ==
    /\ cpc[c] = "waiting"
    /\ ~mu
    /\ mu' = TRUE
    /\ cpc' = [cpc EXCEPT ![c] = "locked"]
    /\ UNCHANGED <<fopen, log, calls, cop, cleft, ccall>>
    /\ UNCHANGED nonWriter

\* writer.appender.append(item): Write's one item, or the next element of
\* WriteMultiple's slice. The appender writes through to the file; an error ends
\* the call with the remaining elements unwritten.
AppendItem(c) ==
    /\ cpc[c] = "locked"
    /\ cop[c] \in {"Write", "WriteMultiple"}
    /\ fopen
    /\ cleft[c] > 0
    /\ \E ok \in BOOLEAN :
         IF ok
           THEN /\ log' = Append(log, [clone |-> c, call |-> ccall[c]])
                /\ cleft' = [cleft EXCEPT ![c] = @ - 1]
           ELSE /\ cleft' = [cleft EXCEPT ![c] = 0]
                /\ UNCHANGED log
    /\ UNCHANGED <<mu, fopen, calls, cpc, cop, ccall>>
    /\ UNCHANGED nonWriter

\* The body of Close: the appender and the file are closed and set to nil (or
\* nothing is done when the file is nil already).
CloseFile(c) ==
    /\ cpc[c] = "locked"
    /\ cop[c] = "Close"
    /\ fopen' = FALSE
    /\ cop' = [cop EXCEPT ![c] = "closed"]
    /\ UNCHANGED <<mu, log, calls, cpc, cleft, ccall>>
    /\ UNCHANGED nonWriter

\* The deferred writer.mu.Unlock(): Close is through, every item is appended or
\* an append failed, or the writer was found closed ("uninitialized FileWriter").
Unlock(c) ==
    /\ cpc[c] = "locked"
    /\ \/ cop[c] = "closed"
       \/ cop[c] \in {"Write", "WriteMultiple"} /\ (cleft[c] = 0 \/ ~fopen)
    /\ mu' = FALSE
    /\ cpc' = [cpc EXCEPT ![c] = "idle"]
    /\ cop' = [cop EXCEPT ![c] = "none"]
    /\ cleft' = [cleft EXCEPT ![c] = 0]
    /\ ccall' = [ccall EXCEPT ![c] = 0]
    /\ UNCHANGED <<fopen, log, calls>>
    /\ UNCHANGED nonWriter

InitWrite == InitRefactor

NextWrite ==
    \E c \in Clones :
        \/ CallWriter(c)
        \/ Lock(c)
        \/ AppendItem(c)
        \/ CloseFile(c)
        \/ Unlock(c)

SpecWriter == InitWrite /\ [][NextWrite]_vars

\* ------------------------------------------------------------ FileWriter.SetPath
\* A clone calls SetPath on the shared writer: it goes on to writer.mu.Lock().
CallSetPath(c) ==
    /\ cpc[c] = "idle"
    /\ calls < MaxCalls
    /\ calls' = calls + 1
    /\ cpc' = [cpc EXCEPT ![c] = "waiting"]
    /\ cop' = [cop EXCEPT ![c] = "SetPath"]
    /\ ccall' = [ccall EXCEPT ![c] = calls + 1]
    /\ UNCHANGED <<mu, fopen, log, cleft>>
    /\ UNCHANGED nonWriter

\* The body of SetPath, run with writer.mu held. With a file open it calls
\* writer.Close(), whose first statement is writer.mu.Lock() on the mutex the
\* clone holds (sync.Mutex is not reentrant). When that Lock has returned, Close
\* closes the file and its deferred Unlock releases the mutex, and SetPath goes
\* on. With no file open the path and the format are set and openFile opens the
\* file at the new path, to which nothing is appended yet; an unsupported
\* format or a failing os.OpenFile leaves the writer without file.
SetPathBody(c) ==
    /\ cpc[c] = "locked"
    /\ cop[c] \in {"SetPath", "SetPath.Close"}
    /\ IF cop[c] = "SetPath.Close"
         THEN /\ fopen' = FALSE
              /\ mu' = FALSE
              /\ cop' = [cop EXCEPT ![c] = "SetPath"]
              /\ UNCHANGED <<cpc, log>>
         ELSE IF fopen
           THEN /\ cpc' = [cpc EXCEPT ![c] = "waiting"]
                /\ cop' = [cop EXCEPT ![c] = "SetPath.Close"]
                /\ UNCHANGED <<mu, fopen, log>>
           ELSE /\ \E opened \in BOOLEAN :
                     /\ fopen' = opened
                     /\ log' = IF opened THEN <<>> ELSE log
                /\ cop' = [cop EXCEPT ![c] = "SetPath.return"]
                /\ UNCHANGED <<mu, cpc>>
    /\ UNCHANGED <<calls, cleft, ccall>>
    /\ UNCHANGED nonWriter

\* SetPath returns: its deferred writer.mu.Unlock() runs.
SetPathReturn(c) ==
    /\ cpc[c] = "locked"
    /\ cop[c] = "SetPath.return"
    /\ mu' = FALSE
    /\ cpc' = [cpc EXCEPT ![c] = "idle"]
    /\ cop' = [cop EXCEPT ![c] = "none"]
    /\ ccall' = [ccall EXCEPT ![c] = 0]
    /\ UNCHANGED <<fopen, log, calls, cleft>>
    /\ UNCHANGED nonWriter

NextSetPath ==
    \E c \in Clones :
        \/ CallWriter(c)
        \/ CallSetPath(c)
        \/ Lock(c)
        \/ AppendItem(c)
        \/ CloseFile(c)
        \/ Unlock(c)
        \/ SetPathBody(c)
        \/ SetPathReturn(c)

SpecSetPath == InitWrite /\ [][NextSetPath]_vars

\* ------------------------------------------------------------ ExpandStatement
\* A call expression: the function it calls and, when an argument of it is a
\* call too, the function that argument calls (0: no such argument).
CallExpr(f, a) == [fn |-> f, arg |-> a]

\* A statement is the sequence of the call expressions ast.Inspect meets in it.
\* A function body holds no call, one call, two calls in one statement or two
\* statements of one call each.
Bodies ==
    {<<>>}
    \cup {<< <<CallExpr(a, 0)>> >> : a \in Funcs}
    \cup {<< <<CallExpr(a, 0), CallExpr(b, 0)>> >> : a \in Funcs, b \in Funcs}
    \cup {<< <<CallExpr(a, 0)>>, <<CallExpr(b, 0)>> >> : a \in Funcs, b \in Funcs}

\* The statement of the test under expansion: one call, with or without a call
\* as its argument, or two calls.
RootStmts ==
    {<<CallExpr(a, b)>> : a \in Funcs, b \in 0 .. NumFuncs}
    \cup {<<CallExpr(a, 0), CallExpr(b, 0)>> : a \in Funcs, b \in Funcs}

\* The depth at which the model gives up an expansion that the code would
\* continue; with a working recursion guard it is never reached.
MaxDepth == 2 * NumFuncs + 2

\* A recursion guard that looks at the top of the call stack only.
ContainsLast(s, x) == s # <<>> /\ s[Len(s)] = x

\* slices.Contains(callStack, funcName).
SlicesContains(s, x) == \E i \in 1 .. Len(s) : s[i] = x

RECURSIVE expandStatementWithStack(_, _, _, _)
RECURSIVE Inspect(_, _, _, _)

\* The closure handed to ast.Inspect, applied to the call expressions of the
\* statement in turn; it yields the paths that lead from the statement's node to
\* the leaves below it, each written as the names of the functions whose bodies
\* are expanded on the way (0 where the model gave up). The calls in the
\* arguments are expanded with the call stack as it is; a callee already on the
\* stack is not expanded; otherwise its name is appended to the closure's
\* callStack variable, which the later calls of the same statement see, and its
\* inner statements are expanded with it. A slice is modelled by its value: an
\* append writes past the length of every slice that is still in use.
Inspect(g, exprs, callStack, depth) ==
    IF exprs = <<>> THEN {<<>>}
    ELSE LET call == Head(exprs)
             argPaths ==
                 IF call.arg = 0 THEN {}
                 ELSE expandStatementWithStack(g, <<CallExpr(call.arg, 0)>>, callStack,
                                               depth + 1)
         IN  IF SlicesContains(callStack, call.fn)
               THEN argPaths \cup Inspect(g, Tail(exprs), callStack, depth)
               ELSE LET pushed == Append(callStack, call.fn)
                        inner ==
                            UNION {expandStatementWithStack(g, g[call.fn][i], pushed,
                                                            depth + 1) :
                                       i \in DOMAIN g[call.fn]}
                    IN  argPaths
                        \cup {<<call.fn>> \o p : p \in inner \cup {<<>>}}
                        \cup Inspect(g, Tail(exprs), pushed, depth)

\* For each call expression of a statement, in the order ast.Inspect meets
\* them: the closure got past the recursion guard there, appended the callee's
\* name to callStack and expanded the callee's inner statements.
RECURSIVE ExpandedSites(_, _)
ExpandedSites(exprs, callStack) ==
    IF exprs = <<>> THEN <<>>
    ELSE LET call == Head(exprs)
         IN  IF SlicesContains(callStack, call.fn)
               THEN <<FALSE>> \o ExpandedSites(Tail(exprs), callStack)
               ELSE <<TRUE>> \o ExpandedSites(Tail(exprs), Append(callStack, call.fn))

\* expandStatementWithStack(stmt, tc, testOnly, callStack) in the call graph g.
expandStatementWithStack(g, stmt, callStack, depth) ==
    IF depth > MaxDepth THEN {<<0>>} ELSE Inspect(g, stmt, callStack, depth)

\* ExpandStatement(stmt, tc, testOnly): the call stack starts as nil.
ExpandStatement(g, stmt) == expandStatementWithStack(g, stmt, <<>>, 0)

\* Analyze is about to expand one statement of a test of some package.
InitExpand ==
    /\ InitDriver
    /\ ~splitByDir /\ threads = 1 /\ nDirs = 0
    /\ InitRefactorer
    /\ InitVisitor
    /\ InitWriter
    /\ NoScenario
    /\ NoSynth
    /\ NoJson
    /\ NoCsv
    /\ body \in [Funcs -> Bodies]
    /\ rootStmt \in RootStmts
    /\ expanded = FALSE
    /\ tree = {}
    /\ sites = <<>>

Expand ==
    /\ ~expanded
    /\ expanded' = TRUE
    /\ tree' = ExpandStatement(body, rootStmt)
    /\ sites' = ExpandedSites(rootStmt, <<>>)
    /\ UNCHANGED <<body, rootStmt>>
    /\ UNCHANGED nonExpander

NextExpand == Expand

SpecExpand == InitExpand /\ [][NextExpand]_vars

\* ------------------------------------------------------------ IdentifyScenarioSet
MaxStmts == 3
NumTypes == 3
MaxElts == 1

\* The underlying types of the package: structs, and one basic type (the last).
Types == 1 .. NumTypes

IsStruct(t) == t \in 1 .. (NumTypes - 1)

\* tc.TypeOf(rangeStmt.X).
OperandTypes ==
    {NilType, [shape |-> "basic", elem |-> NoType, strKey |-> FALSE]}
    \cup {[shape |-> s, elem |-> t, strKey |-> FALSE] : s \in {"slice", "array"}, t \in Types}
    \cup {[shape |-> "map", elem |-> t, strKey |-> k] : t \in Types, k \in BOOLEAN}

Exprs ==
    {NoExpr, [lit |-> TRUE, n |-> 0, kv |-> FALSE, typ |-> NoType]}
    \cup {[lit |-> TRUE, n |-> n, kv |-> k, typ |-> t] :
              n \in 1 .. MaxElts, k \in BOOLEAN, t \in Types \cup {NoType}}

\* The expanded statements of a test: nil, a range loop over the expression e of
\* type xt, an assignment or a var declaration of e, a call of a helper whose
\* expansion holds an assignment of e, a call of a helper whose expansion holds
\* a range loop over a parameter of type xt, anything else.
Stmts ==
    {NoStmt, [kind |-> "other", xt |-> NilType, e |-> NoExpr]}
    \cup {[kind |-> "helper", xt |-> t, e |-> NoExpr] : t \in OperandTypes}
    \cup {[kind |-> "range", xt |-> t, e |-> e] : t \in OperandTypes, e \in Exprs}
    \cup {[kind |-> k, xt |-> NilType, e |-> e] : k \in {"assign", "decl", "call"}, e \in Exprs}

\* The var declarations of the test's file: the values they give.
FileDecls ==
    {<<>>} \cup {<<e>> : e \in Exprs} \cup {<<e, f>> : e \in Exprs, f \in Exprs}

\* ss.detectScenarioDataStructure(typ).
detectScenarioDataStructure(s, typ) ==
    IF typ.shape \in {"slice", "array"} /\ IsStruct(typ.elem)
      THEN [s EXCEPT !.ds = "structList", !.typ = typ.elem]
    ELSE IF typ.shape = "map"
      THEN [s EXCEPT !.ds = "map", !.typ = typ.elem,
                     !.nameField = IF typ.strKey THEN "map key" ELSE @]
    ELSE [s EXCEPT !.ds = "none", !.typ = NoType]

\* IdentifyScenarios dereferences the nil type of the value of a map literal's
\* first pair.
IdentifyPanics(s, e) == e.lit /\ e.n > 0 /\ s.ds = "map" /\ e.kv /\ e.typ = NoType

\* The value IdentifyScenarios returns.
IdentifyFound(s, e) ==
    /\ e.lit
    /\ e.n > 0
    /\ \/ s.ds = "structList" /\ ~e.kv /\ e.typ # NoType /\ e.typ = s.typ
       \/ s.ds = "map" /\ e.kv /\ e.typ # NoType /\ e.typ = s.typ

\* The ScenarioSet after ss.IdentifyScenarios(expr, tc).
IdentifyScenarios(s, e) ==
    IF IdentifyFound(s, e) THEN [s EXCEPT !.scenarios = s.scenarios + e.n] ELSE s

\* The guard of the runner block that lets every range loop through.
AlwaysUnset(s) == TRUE

\* ss.Runner == nil.
RunnerUnset(s) == s.runner = NoStmt

\* ss.Scenarios == nil && ss.ScenarioType != nil.
StillSearching(s) == s.scenarios = 0 /\ s.typ # NoType

\* The statement is a call of a helper whose range loop runs over a list of
\* structs or a map.
HoldsRunner(stmt) ==
    /\ stmt.kind = "helper"
    /\ detectScenarioDataStructure(NewScenarioSet, stmt.xt).ds # "none"

\* The guards at the head of IdentifyScenarioSet.
BeginIdentify ==
    /\ spc = "idle"
    /\ \E tcNil \in BOOLEAN, empty \in BOOLEAN :
           spc' = IF tcNil \/ empty THEN "nil" ELSE "loop"
    /\ ss' = NewScenarioSet
    /\ UNCHANGED <<examined, rejected, helperLoop>>
    /\ UNCHANGED nonScenario

\* One iteration of the loop over the reversed statements.
ExamineStatement ==
    /\ spc = "loop"
    /\ examined < MaxStmts
    /\ examined' = examined + 1
    /\ \E stmt \in Stmts :
         /\ helperLoop' = (helperLoop \/ HoldsRunner(stmt))
         /\ IF stmt.kind = "nil"
              THEN UNCHANGED <<spc, ss, rejected>>
            ELSE IF RunnerUnset(ss) /\ stmt.kind = "range"
              THEN LET d == detectScenarioDataStructure(ss, stmt.xt)
                   IN  IF d.ds = "none"
                         THEN /\ ss' = d
                              /\ rejected' = rejected + 1
                              /\ UNCHANGED spc
                       ELSE IF stmt.e.lit /\ IdentifyPanics(d, stmt.e)
                         THEN /\ ss' = d
                              /\ spc' = "panic"
                              /\ UNCHANGED rejected
                       ELSE /\ ss' = [(IF stmt.e.lit THEN IdentifyScenarios(d, stmt.e) ELSE d)
                                         EXCEPT !.runner = stmt]
                            /\ UNCHANGED <<spc, rejected>>
            ELSE IF StillSearching(ss) /\ stmt.kind \in {"assign", "decl", "call"}
              THEN IF IdentifyPanics(ss, stmt.e)
                     THEN /\ spc' = "panic"
                          /\ UNCHANGED <<ss, rejected>>
                     ELSE /\ ss' = IdentifyScenarios(ss, stmt.e)
                          /\ UNCHANGED <<spc, rejected>>
            ELSE UNCHANGED <<spc, ss, rejected>>
    /\ UNCHANGED nonScenario

RECURSIVE SearchPanics(_, _)
\* The loop over the file's declarations meets a panic of IdentifyScenarios.
SearchPanics(s, decls) ==
    /\ decls # <<>>
    /\ \/ IdentifyPanics(s, Head(decls))
       \/ ~IdentifyFound(s, Head(decls)) /\ SearchPanics(s, Tail(decls))

RECURSIVE SearchDecls(_, _)
\* The ScenarioSet after the loop over the file's declarations, which stops at
\* the first value that holds the scenarios.
SearchDecls(s, decls) ==
    IF decls = <<>> THEN s
    ELSE IF IdentifyFound(s, Head(decls)) THEN IdentifyScenarios(s, Head(decls))
    ELSE SearchDecls(s, Tail(decls))

\* The statements are exhausted: the file's declarations are searched when the
\* loop was found without its scenarios, ss.Analyze() leaves the fields above
\* alone, and ss is returned.
ReturnScenarioSet ==
    /\ spc = "loop"
    /\ examined >= 1
    /\ IF StillSearching(ss)
         THEN \E fileNil \in BOOLEAN, decls \in FileDecls :
                IF fileNil
                  THEN spc' = "returned" /\ UNCHANGED ss
                ELSE IF SearchPanics(ss, decls)
                  THEN spc' = "panic" /\ UNCHANGED ss
                ELSE spc' = "returned" /\ ss' = SearchDecls(ss, decls)
         ELSE spc' = "returned" /\ UNCHANGED ss
    /\ UNCHANGED <<examined, rejected, helperLoop>>
    /\ UNCHANGED nonScenario

\* IdentifyScenarioSet is about to be called on a test of some package.
InitScenario ==
    /\ InitDriver
    /\ ~splitByDir /\ threads = 1 /\ nDirs = 0
    /\ InitRefactorer
    /\ InitVisitor
    /\ InitWriter
    /\ NoExpansion
    /\ NoScenario
    /\ NoSynth
    /\ NoJson
    /\ NoCsv

NextScenario ==
    \/ BeginIdentify
    \/ ExamineStatement
    \/ ReturnScenarioSet

SpecScenario == InitScenario /\ [][NextScenario]_vars

\* ------------------------------------------------------------ the CSV appender
MaxWrites == 2

\* The bytes that matter to encoding/csv; a string is the sequence of its bytes.
CR == "CR"
LF == "LF"
Comma == ","
Quote == "Q"

\* Field values: the empty string, a plain one, one with a line break written
\* as CR LF and the same with a bare LF.
Fields == {<<>>, <<"a">>, <<"a", CR, LF, "b">>, <<"a", LF, "b">>}

\* Header sequences of one and two columns.
Headers == {<<f>> : f \in Fields} \cup {<<f, g>> : f \in Fields, g \in Fields}

\* Data rows of one and two fields; the fields tell the rows apart.
Rows == {<<f>> : f \in {<<"a">>, <<"b">>}} \cup {<<f, f>> : f \in {<<"a">>, <<"b">>}}

\* csv.Writer.fieldNeedsQuotes: a non-empty field that holds the delimiter, a
\* quote or a line break (none of the fields here starts with a space).
fieldNeedsQuotes(f) ==
    f # <<>> /\ \E i \in DOMAIN f : f[i] \in {Comma, Quote, CR, LF}

RECURSIVE EscapeQuotes(_)
\* The inside of a quoted field: every quote doubled, CR and LF written as they
\* are (UseCRLF is false).
EscapeQuotes(f) ==
    IF f = <<>> THEN <<>>
    ELSE (IF Head(f) = Quote THEN <<Quote, Quote>> ELSE <<Head(f)>>) \o EscapeQuotes(Tail(f))

WriteField(f) ==
    IF fieldNeedsQuotes(f) THEN <<Quote>> \o EscapeQuotes(f) \o <<Quote>> ELSE f

RECURSIVE WriteFields(_)
WriteFields(rec) ==
    IF Len(rec) = 1 THEN WriteField(rec[1])
    ELSE WriteField(Head(rec)) \o <<Comma>> \o WriteFields(Tail(rec))

\* csv.Writer.Write(record): the bytes of one record, ended by a line feed.
CsvWrite(rec) == WriteFields(rec) \o <<LF>>

RECURSIVE NormalizeLines(_)
\* csv.Reader.readLine: a CR LF at the end of a line is read as LF.
NormalizeLines(b) ==
    IF b = <<>> THEN <<>>
    ELSE IF Len(b) >= 2 /\ b[1] = CR /\ b[2] = LF THEN <<LF>> \o NormalizeLines(Tail(Tail(b)))
    ELSE <<Head(b)>> \o NormalizeLines(Tail(b))

RECURSIVE SkipEmptyLines(_)
\* csv.Reader.readRecord skips the empty lines before a record.
SkipEmptyLines(b) ==
    IF b # <<>> /\ Head(b) = LF THEN SkipEmptyLines(Tail(b)) ELSE b

RECURSIVE ParseRecord(_, _, _, _)
\* csv.Reader.readRecord from the start of a non-empty line: st is "start" (a
\* field begins), "bare" (inside an unquoted field), "quoted" (inside a quoted
\* one) or "endquote" (after a quote inside a quoted one). The result is the
\* record, or the error.
ParseRecord(b, st, field, rec) ==
    IF b = <<>>
      THEN IF st = "quoted" THEN [err |-> TRUE, rec |-> <<>>]
           ELSE [err |-> FALSE, rec |-> Append(rec, field)]
    ELSE LET c == Head(b)
             rest == Tail(b)
         IN  IF st = "quoted"
               THEN IF c = Quote THEN ParseRecord(rest, "endquote", field, rec)
                    ELSE ParseRecord(rest, "quoted", Append(field, c), rec)
             ELSE IF c = LF THEN [err |-> FALSE, rec |-> Append(rec, field)]
             ELSE IF c = Comma THEN ParseRecord(rest, "start", <<>>, Append(rec, field))
             ELSE IF st = "start"
               THEN IF c = Quote THEN ParseRecord(rest, "quoted", <<>>, rec)
                    ELSE ParseRecord(rest, "bare", <<c>>, rec)
             ELSE IF st = "bare"
               THEN IF c = Quote THEN [err |-> TRUE, rec |-> <<>>]
                    ELSE ParseRecord(rest, "bare", Append(field, c), rec)
             ELSE IF c = Quote THEN ParseRecord(rest, "quoted", Append(field, Quote), rec)
             ELSE [err |-> TRUE, rec |-> <<>>]

\* csv.NewReader(f).Read() on a file of the bytes b: its first record, or an
\* error (io.EOF when no record is left).
CsvRead(b) ==
    LET line == SkipEmptyLines(NormalizeLines(b))
    IN  IF line = <<>> THEN [err |-> TRUE, rec |-> <<>>]
        ELSE ParseRecord(line, "start", <<>>, <<>>)

\* NewFileWriter -> SetPath -> openFile: the file is opened, truncated unless
\* the append flag is set, and a new csvAppender is made for it.
OpenCsv ==
    /\ ~copen
    /\ copen' = TRUE
    /\ \E append \in BOOLEAN :
         IF append
           THEN UNCHANGED <<cfile, cheader, clog>>
           ELSE cfile' = <<>> /\ cheader' = "none" /\ clog' = <<>>
    /\ once' = FALSE
    /\ existingHeaders' = <<>>
    /\ UNCHANGED cn
    /\ UNCHANGED nonCsv

\* One entry of clog: the call's headers and row, the header sequence the file
\* began with before the call, whether the call returned an error and whether
\* it changed the file.
LogEntry(headers, row, err, changed) ==
    [headers |-> headers, row |-> row, present |-> cheader, err |-> err, changed |-> changed]

\* csvAppender.append(row, headers), called by Write under the writer's mutex.
AppendCsv ==
    /\ copen
    /\ cn < MaxWrites
    /\ cn' = cn + 1
    /\ \E headers \in Headers, row \in Rows :
         IF Len(row) # Len(headers)
           THEN /\ clog' = Append(clog, LogEntry(headers, row, TRUE, FALSE))
                /\ UNCHANGED <<cfile, once, existingHeaders, cheader>>
         ELSE LET empty == cfile = <<>>
                  read == CsvRead(cfile)
                  headerErr == ~once /\ ~empty /\ read.err
                  existing == IF once THEN existingHeaders
                              ELSE IF empty THEN headers
                              ELSE read.rec
                  buffered == IF ~once /\ empty THEN CsvWrite(headers) ELSE <<>>
              IN  /\ once' = TRUE
                  /\ IF headerErr
                       THEN /\ clog' = Append(clog, LogEntry(headers, row, TRUE, FALSE))
                            /\ UNCHANGED <<cfile, existingHeaders, cheader>>
                     ELSE IF headers # existing
                       THEN /\ existingHeaders' = existing
                            /\ clog' = Append(clog, LogEntry(headers, row, TRUE, FALSE))
                            /\ UNCHANGED <<cfile, cheader>>
                     ELSE /\ existingHeaders' = existing
                          /\ cfile' = cfile \o buffered \o CsvWrite(row)
                          /\ cheader' = IF empty THEN headers ELSE cheader
                          /\ clog' = Append(clog, LogEntry(headers, row, FALSE, TRUE))
    /\ UNCHANGED copen
    /\ UNCHANGED nonCsv

\* FileWriter.Close: the appender is flushed and the file closed.
CloseCsv ==
    /\ copen
    /\ copen' = FALSE
    /\ UNCHANGED <<cfile, once, existingHeaders, cheader, clog, cn>>
    /\ UNCHANGED nonCsv

InitCsv ==
    /\ InitDriver
    /\ ~splitByDir /\ threads = 1 /\ nDirs = 0
    /\ InitRefactorer
    /\ InitVisitor
    /\ Quiet

NextCsv ==
    \/ OpenCsv
    \/ AppendCsv
    \/ CloseCsv

SpecCsv == InitCsv /\ [][NextCsv]_vars

\* ------------------------------------------------------------ the JSON appender
\* The payloads: scalars, and slices of up to two scalars.
Scalar(x) == [kind |-> "scalar", v |-> x, elems |-> <<>>]

Slice(xs) == [kind |-> "slice", v |-> "", elems |-> xs]

ScalarValues == {"x", "y"}

Payloads ==
    {Scalar(x) : x \in ScalarValues}
    \cup {Slice(<<>>)}
    \cup {Slice(<<x>>) : x \in ScalarValues}
    \cup {Slice(<<x, y>>) : x \in ScalarValues, y \in ScalarValues}

\* otherData: absent, a boolean, or something that is no boolean.
OtherData == {"absent", "true", "false", "other"}

RECURSIVE EncodeElems(_)
RECURSIVE Encode(_)
\* json.Encoder.Encode of one value: the text, as a sequence of tokens.
Encode(val) ==
    IF val.kind = "scalar" THEN <<val.v>>
    ELSE <<"[">> \o EncodeElems([i \in DOMAIN val.elems |-> Scalar(val.elems[i])]) \o <<"]">>

\* The elements of an array, with the commas between them.
EncodeElems(vals) ==
    IF vals = <<>> THEN <<>>
    ELSE IF Len(vals) = 1 THEN Encode(vals[1])
    ELSE Encode(Head(vals)) \o <<",">> \o EncodeElems(Tail(vals))

\* json.Encoder.Encode of a []any: null for the nil slice, else the array.
EncodeArray(vals) ==
    IF vals = <<>> THEN <<"null">> ELSE <<"[">> \o EncodeElems(vals) \o <<"]">>

\* An encoding of alreadyWritten that wraps a single element too.
EncodeWrapped(all) == EncodeArray(all)

\* The text the appender leaves in the file: the one element by itself, else
\* the array of the elements.
EncodeWritten(all) ==
    IF Len(all) = 1 THEN Encode(all[1]) ELSE EncodeArray(all)

\* Whether append flattens the payload: it is a slice and otherData[0] is the
\* boolean true.
Flattens(data, other) == data.kind = "slice" /\ other = "true"

\* NewFileWriter -> SetPath -> openFile for a .json path: the append flag is
\* forced to false, so the file is truncated; a new jsonAppender is made.
OpenJson ==
    /\ ~jopen
    /\ jopen' = TRUE
    /\ jfile' = <<>>
    /\ jonce' = FALSE
    /\ alreadyWritten' = <<>>
    /\ jlog' = <<>>
    /\ UNCHANGED nonJson

\* jsonAppender.append(data, otherData...). The first call decodes the file,
\* which openFile left empty: io.EOF, nothing is read.
AppendJson ==
    /\ jopen
    /\ Len(jlog) < MaxWrites
    /\ \E data \in Payloads, other \in OtherData :
         LET all ==
                 IF Flattens(data, other)
                   THEN alreadyWritten \o [i \in DOMAIN data.elems |-> Scalar(data.elems[i])]
                   ELSE Append(alreadyWritten, data)
         IN  /\ alreadyWritten' = all
             /\ jfile' = EncodeWritten(all)
             /\ jlog' = Append(jlog, [data |-> data, other |-> other])
    /\ jonce' = TRUE
    /\ UNCHANGED jopen
    /\ UNCHANGED nonJson

\* FileWriter.Close.
CloseJson ==
    /\ jopen
    /\ jopen' = FALSE
    /\ UNCHANGED <<jfile, jonce, alreadyWritten, jlog>>
    /\ UNCHANGED nonJson

InitJson == InitCsv

NextJson ==
    \/ OpenJson
    \/ AppendJson
    \/ CloseJson

SpecJson == InitJson /\ [][NextJson]_vars

\* ------------------------------------------------------------ refactorer claims
\* C2 as stated: when AttemptRefactoring returns from a refactor whose
\* generation status is success, every source file it overwrote holds exactly
\* the bytes it held before the call.
C2_FilesRestoredAfterSuccess ==
    (rpc = "returned" /\ status = "success")
    => \A f \in written : disk[f] = diskAtCall[f]

\* C3 as stated: when a disk operation of the verification has failed,
\* AttemptRefactoring has attempted, before it returns, to write the original
\* bytes back to every file it had overwritten.
C3_RestoreAttemptedOnDiskFailure ==
    (rpc = "returned" /\ diskFailed) => written \subseteq restoreTried

\* C4 as stated: whenever subtest synthesis has replaced a helper function by a
\* deep copy, the cleanup closure has been invoked when AttemptRefactoring
\* returns, whatever the return path.
C4_CleanupOnEveryReturn ==
    (rpc = "returned" /\ cloned) => cleanups >= 1

\* The runner of the test under refactoring lies in a helper function (a
\* function of the package other than the test function itself).
RunnerInHelper == cloneOutcome \in {"replaceFailed", "indexFailed", "cloned"}

\* C13 as stated: after AttemptRefactoring completes on a test whose runner
\* lives in a helper function, the enclosing file's declaration list holds the
\* original helper declaration node again and scenarioSet.runner is the pointer
\* it was before refactoring.
C13_HelperAndRunnerRestored ==
    (rpc = "returned" /\ RunnerInHelper)
    => inFile[cur] = "original" /\ runner[cur] = "original"

\* C14: whenever AttemptRefactoring returns a generation status other than
\* success it has written no source file (the disk is as it was at the call, and
\* no restoring write was tried either) and has not called tc.Execute().
C14_NoEffectWithoutSuccess ==
    (rpc = "returned" /\ status # "success")
    => /\ written = {}
       /\ restoreTried = {}
       /\ disk = diskAtCall
       /\ execs = 0

C14_Witness ==
    /\ rpc = "returned"
    /\ status \in {"fail", "badFields"}
    /\ cloned
    /\ cur = 2
    /\ \E f \in SrcFiles : disk[f] # Pristine

\* C15 as stated: refactored source is written to disk only after the first
\* tc.Execute() has returned, so that the first execution (the one that has
\* just returned when no file is saved yet) ran against the original files.
C15_FirstExecutionOnOriginalFiles ==
    /\ written # {} => execs >= 1
    /\ (rpc = "save" /\ savedKeys = {}) => \A f \in SrcFiles : disk[f] = Pristine

\* C16 as stated: if the runner statement cannot be located inside the
\* deep-copied helper function, the generation status is error and neither the
\* disk rewrite nor any test execution takes place.
C16_RunnerNotInCopyIsError ==
    (rpc = "returned" /\ cloneOutcome = "indexFailed")
    => /\ status = "error"
       /\ written = {}
       /\ execs = 0

\* ------------------------------------------------------------ driver claims
RECURSIVE ReportsUpTo(_)
ReportsUpTo(n) == IF n < 0 THEN 0 ELSE reports[n] + ReportsUpTo(n - 1)

\* All ReportResults calls made so far, on the original task and on the clones.
TotalReports == ReportsUpTo(MaxDirs)

InsideCount == Cardinality({d \in Dirs : wpc[d] \in Inside})

\* The clones whose worker function has returned.
Returned(d) == wpc[d] \in {"ret", "done"}

\* C1 as stated: with splitByDir, for every number of subdirectories (0
\* included) and no worker error, Parse has called Close() on the original task
\* exactly once when it returns, and no Close() call precedes the return of any
\* clone's per-directory parse.
C1_CloseOnceAfterAllClones ==
    /\ (splitByDir /\ mpc = "returned" /\ \A d \in 1 .. nDirs : wret[d] = Nil)
          => closeCount = 1
    /\ (splitByDir /\ closeCount > 0) => \A d \in 1 .. nDirs : Returned(d)

\* C5 as stated: when Parse returns a non-nil error, Close() has been called
\* exactly once before the return.
C5_CloseOnceOnError ==
    (mpc = "returned" /\ parseRet # Nil) => closeCount = 1

C7_FirstErrorAfterAllWorkers ==
    (splitByDir /\ mpc = "returned" /\ nDirs > 0)
    => /\ \A d \in 1 .. nDirs : wpc[d] = "done"
       /\ IF firstErr = 0
            THEN parseRet = Nil /\ \A d \in 1 .. nDirs : wret[d] = Nil
            ELSE /\ parseRet = wret[firstErr]
                 /\ parseRet = LoadErr(firstErr)
       /\ (parseRet = Nil => \A d \in 1 .. nDirs : wret[d] = Nil)

C7_Witness ==
    /\ splitByDir
    /\ mpc = "returned"
    /\ \E d \in 1 .. nDirs : wret[d].kind = "canceled"
    /\ \E d \in 1 .. nDirs : wret[d].kind = "load" /\ d # firstErr
    /\ parseRet.kind = "load"

\* C8: once a worker has passed a check-point (the worker's check before any
\* work, parseDir's check before starting, the check before a file) with the
\* shared context cancelled, it has returned the cancellation error, and from
\* then on no Visit and no ReportResults call is made on its task.
C8_StopsAtCheckpoint ==
    /\ [](\A w \in Tasks :
            sawCancel[w] => Returned(w) /\ wret[w].kind = "canceled")
    /\ [][\A w \in Tasks :
            sawCancel[w] => visits'[w] = visits[w] /\ reports'[w] = reports[w]]_vars

C8_Witness ==
    \E w \in Dirs :
        /\ sawCancel[w]
        /\ wpc[w] = "done"
        /\ visits[w] > 0
        /\ files[w] > 0
        /\ reports[w] = 0

\* C9: at every instant at most `threads` workers are inside a per-directory
\* parse.
C9_AtMostThreadsInside ==
    splitByDir => InsideCount <= threads

C9_Witness ==
    /\ splitByDir
    /\ threads = 2
    /\ InsideCount = 2
    /\ mpc = "schedule"
    /\ nextDir <= nDirs

\* C10: with splitByDir and threads = 1 no two per-directory parses overlap and
\* the ReportResults calls occur in subdirectory enumeration order.
C10_SequentialInOrder ==
    (splitByDir /\ threads = 1)
    => /\ InsideCount <= 1
       /\ ~outOfOrder

C10_Witness ==
    /\ splitByDir
    /\ threads = 1
    /\ TotalReports >= 3
    /\ mpc = "returned"

\* ------------------------------------------------------------ claims about Visit
\* The workers that are inside a read or write of findDefinitionMemo.
InMemo == {w \in Tasks : wpc[w] = "memo"}

\* C11 as stated: at any instant at most one worker is reading or writing the
\* process-wide find-definition memoization cache, whatever the threads value
\* under splitByDir.
C11_OneWorkerInMemo ==
    Cardinality(InMemo) <= 1

\* The failures of one test that C17 names: a nil analysis result, missing type
\* information for an expression, an unsupported loop key or value.
TestFailures == {"nilResult", "missingType", "badKey"}

\* C17 as stated: a failure while analysing or refactoring one test is absorbed
\* inside Visit, so it never ends the process: Visit returns, the remaining tests
\* and files are processed and Parse does not fail because of it.
C17_TestFailureAbsorbed ==
    fatal \notin TestFailures

\* C18 as stated: within a per-directory parse Visit is never called for a file
\* whose path contains vendor/ or appears in a package error position, every
\* other file is visited, and (without cancellation) a parse that has iterated
\* its files has called ReportResults once and returns no error.
C18_OnlyVendorAndErrorFilesSkipped ==
    /\ ~visitedExcluded
    /\ ~skippedOther
    /\ \A w \in Tasks :
         (Returned(w) /\ loaded[w] = "pkgs" /\ ~sawCancel[w])
         => reports[w] = 1 /\ wret[w] = Nil

\* ------------------------------------------------------------ claims about the FileWriter
\* The clones that are inside Write, WriteMultiple or Close, past the Lock.
Locked == {c \in Clones : cpc[c] = "locked"}

\* C12: the Write, WriteMultiple and Close calls that clones make on the shared
\* FileWriter execute one at a time, and the elements of one WriteMultiple call
\* lie in the file as one uninterrupted block.
C12_WriterSerialized ==
    /\ Cardinality(Locked) <= 1
    /\ \A i, j \in 1 .. Len(log) :
         (i < j /\ log[i].call = log[j].call)
         => \A k \in i .. j : log[k].call = log[i].call

C12_Witness ==
    \E c, d \in Clones :
        /\ c # d
        /\ cpc[c] = "locked"
        /\ cop[c] = "WriteMultiple"
        /\ cleft[c] >= 1
        /\ Len(log) >= 2
        /\ log[Len(log)].call = ccall[c]
        /\ log[1].clone = d
        /\ cpc[d] = "waiting"

\* ------------------------------------------------------------ claims about ExpandStatement
\* No name occurs twice in the sequence p.
NoRepeat(p) == \A i, j \in DOMAIN p : i # j => p[i] # p[j]

\* C19: for any call graph among the functions of the package, direct and
\* mutual recursion included, no function name occurs more than once on any
\* root-to-leaf path of the tree ExpandStatement returns, and the expansion
\* ends by itself (no path was cut off).
C19_NoNameTwiceOnPath ==
    expanded => \A p \in tree : NoRepeat(p) /\ \A i \in DOMAIN p : p[i] # 0

C19_Witness ==
    /\ expanded
    /\ rootStmt = <<CallExpr(1, 2)>>
    /\ body[1] = << <<CallExpr(2, 0)>> >>
    /\ body[2] = << <<CallExpr(1, 0), CallExpr(2, 0)>> >>
    /\ <<1, 2>> \in tree
    /\ <<2, 1>> \in tree

\* ------------------------------------------------------------ claims about IdentifyScenarioSet
\* C20: after IdentifyScenarioSet has returned a ScenarioSet: when its
\* DataStructure is none, it holds no scenarios and no scenario type; when it is
\* table-driven (its DataStructure is not none), its runner is a range loop and
\* its DataStructure and ScenarioType are the ones detectScenarioDataStructure
\* yields for the type of that loop's operand, whatever range loops were
\* examined and rejected before.
C20_DataStructureFromRunner ==
    spc = "returned" =>
        /\ ss.ds = "none" => ss.scenarios = 0 /\ ss.typ = NoType
        /\ ss.ds # "none" =>
               /\ ss.runner.kind = "range"
               /\ LET d == detectScenarioDataStructure(NewScenarioSet, ss.runner.xt)
                  IN  d.ds = ss.ds /\ d.typ = ss.typ

C20_Witness ==
    /\ spc = "returned"
    /\ rejected >= 1
    /\ ss.ds = "structList"
    /\ ss.runner.kind = "range"
    /\ ss.scenarios > 0

\* C21: when the body of a test calls a helper of its package that holds the
\* range loop over the scenario table, and the body holds no range loop of its
\* own, the ScenarioSet that IdentifyScenarioSet returns has that loop as its
\* runner and is table-driven.
C21_HelperLoopIsRunner ==
    (spc = "returned" /\ helperLoop /\ rejected = 0 /\ ss.runner.kind # "range")
    => ss.runner.kind = "helper" /\ ss.ds # "none"

\* ------------------------------------------------------------ claims about the CSV appender
\* C22: when two records with the same header sequence are written, the first
\* into the empty file and the second into the file the first left, both
\* writes succeed and the file holds the header row once, then the two data
\* rows in the order of the writes.
C22_OneHeaderTwoRows ==
    (/\ Len(clog) = 2
     /\ \A i \in 1 .. 2 : Len(clog[i].row) = Len(clog[i].headers)
     /\ clog[1].headers = clog[2].headers)
    => /\ ~clog[1].err /\ ~clog[2].err
       /\ cfile = CsvWrite(clog[1].headers) \o CsvWrite(clog[1].row) \o CsvWrite(clog[2].row)

\* C23: a write whose header sequence differs from the one the file begins
\* with returns an error and leaves the bytes of the file as they were.
C23_MismatchRejected ==
    \A i \in DOMAIN clog :
        (clog[i].present # "none" /\ clog[i].headers # clog[i].present)
        => clog[i].err /\ ~clog[i].changed

\* ------------------------------------------------------------ claims about the JSON appender
\* The i-th write of the log was flattened.
Flattened(i) == Flattens(jlog[i].data, jlog[i].other)

MaxBody == 2

\* The statements of a runner loop body: a `continue` of the runner loop, a
\* `continue` with a label, an inner loop that holds a `continue`, any other.
BodyStmts == {"continue", "continue L", "for { continue }", "other"}

RunnerBodies == UNION {[1 .. n -> BodyStmts] : n \in 1 .. MaxBody}

\* ast.NewIdent(name) and asttools.NewSelectorExpr(x, sel).
NewIdent(name) == [x |-> name, sel |-> ""]
NewSelectorExpr(x, sel) == [x |-> x, sel |-> sel]

\* The scenario name field: the detected one, or else the first string-typed
\* field of the scenario type.
nameField(detected, first) == IF detected = "" THEN first ELSE detected

\* The loop key that the synthesized statement uses: an ignored key of a
\* `map key` scenario set gets a default name.
loopKeyName(nf, key) ==
    IF nf = "map key" /\ key = "_" THEN "test" ELSE key

\* The expression for the name of a scenario.
scenarioNameExpr(nf, key, value) ==
    IF nf = "map key" THEN NewIdent(loopKeyName(nf, key))
    ELSE NewSelectorExpr(value, nf)

\* The `t.Run()` call statement: the receiver of Run and the parameter of the
\* function literal are named t, whatever the enclosing function names its
\* tester; the body of the literal is the list of the loop body statements.
tRunCall(enclosing, nf, key, value, stmts) ==
    [recv  |-> "t",
     name  |-> scenarioNameExpr(nf, key, value),
     param |-> "t",
     body  |-> stmts]

\* AttemptRefactoring is about to call refactorToSubtests for a table-driven
\* test whose scenario set has a runner loop. loop.Key and loop.Value are nil,
\* an identifier, or an expression that is no identifier
\* (`for a[0], b.c = range x`).
InitSynth ==
    /\ InitDriver
    /\ ~splitByDir /\ threads = 1 /\ nDirs = 0
    /\ InitRefactorer
    /\ InitVisitor
    /\ InitWriter
    /\ NoExpansion
    /\ NoScenario
    /\ NoJson
    /\ NoCsv
    /\ tester \in {"", "t", "tb"}
    /\ loopType \in {"range", "for"}
    /\ loopKey \in {"nil", "_", "k", "expr"}
    /\ loopValue \in {"nil", "tt", "expr"}
    /\ ssNameField \in {"", "map key", "Name"}
    /\ firstString \in {"", "Label"}
    /\ runnerStmts \in RunnerBodies
    /\ helperCopy \in BOOLEAN
    /\ tpc = "called"
    /\ genStatus = "none"
    /\ tRun = NoRunCall
    /\ wrapped = FALSE
    /\ astKey = loopKey

\* refactorToSubtests() from the call of cloneHelperFunction to its return. The
\* type assertions on loop.Key and loop.Value panic on an expression that is no
\* identifier.
RefactorToSubtests ==
    /\ tpc = "called"
    /\ LET nf == nameField(ssNameField, firstString)
       IN  IF loopType # "range" \/ loopKey = "nil" \/ loopValue = "nil"
             THEN /\ tpc' = "returned"
                  /\ genStatus' = "fail"
                  /\ UNCHANGED <<tRun, wrapped, astKey>>
             ELSE IF loopKey = "expr" \/ loopValue = "expr"
               THEN /\ tpc' = "panicked"
                    /\ UNCHANGED <<genStatus, tRun, wrapped, astKey>>
               ELSE IF nf = ""
                 THEN /\ tpc' = "returned"
                      /\ genStatus' = "badFields"
                      /\ UNCHANGED <<tRun, wrapped, astKey>>
                 ELSE /\ tpc' = "returned"
                      /\ genStatus' = "success"
                      /\ tRun' = tRunCall(tester, nf, loopKey, loopValue, runnerStmts)
                      /\ wrapped' = TRUE
                      /\ astKey' = loopKeyName(nf, loopKey)
    /\ UNCHANGED <<tester, loopType, loopKey, loopValue, ssNameField, firstString,
                   runnerStmts, helperCopy>>
    /\ UNCHANGED nonSynth

NextSynth == RefactorToSubtests

SpecSynth == InitSynth /\ [][NextSynth]_vars

\* ------------------------------------------------------------ more claims about the refactorer
\* C28: when AttemptRefactoring is called with every file holding its original
\* bytes, a file that the call has rewritten for the verification holds the
\* refactoring of the test of this call only: the loop of every test
\* refactored before prints in its original form.
C28_OnlyCurrentTestRefactored ==
    \A f \in SrcFiles :
        (/\ rpc = "save"
         /\ \A g \in SrcFiles : diskAtCall[g] = Pristine
         /\ f \in written
         /\ disk[f].ok)
        => disk[f].refd \subseteq {cur}

\* ------------------------------------------------------------ more claims about ExpandStatement
\* C29: the statement handed to ExpandStatement is enclosed by no function
\* body, so none of its calls is recursive: the body of the callee is expanded
\* at every call of the statement, also at a second call of a function whose
\* expansion finished at an earlier call of the same statement.
C29_SecondCallExpanded ==
    expanded => \A i \in DOMAIN rootStmt : sites[i]

\* ------------------------------------------------------------ claims about refactorToSubtests
\* C25: the receiver of the synthesized Run call is the name of the enclosing
\* function's tester parameter; when the function has no such parameter the
\* generation status is noTester and the runner loop is left as it was.
C25_ReceiverIsTesterParam ==
    (tpc = "returned" /\ genStatus \notin {"fail", "badFields"})
    => IF tester = ""
         THEN genStatus = "noTester" /\ ~wrapped /\ astKey = loopKey
         ELSE genStatus = "success" /\ tRun.recv = tester

\* C26: after a successful synthesis the body of the subtest closure is the
\* runner body with every unlabeled `continue` of the runner loop replaced by
\* `return`; labeled continues and continues of inner loops are unchanged.
C26_ContinueBecomesReturn ==
    (tpc = "returned" /\ genStatus = "success")
    => /\ Len(tRun.body) = Len(runnerStmts)
       /\ \A i \in DOMAIN runnerStmts :
              tRun.body[i] = IF runnerStmts[i] = "continue" THEN "return"
                             ELSE runnerStmts[i]

\* C27: after a successful synthesis with the name field "map key", a loop key
\* `_` is renamed to testName in the AST and the subtest name is the bare
\* identifier testName; any other key is kept and used as the name.
C27_IgnoredKeyBecomesTestName ==
    (/\ tpc = "returned"
     /\ genStatus = "success"
     /\ nameField(ssNameField, firstString) = "map key")
    => IF loopKey = "_"
         THEN astKey = "testName" /\ tRun.name = NewIdent("testName")
         ELSE astKey = loopKey /\ tRun.name = NewIdent(loopKey)

\* ------------------------------------------------------------ claims about FileWriter.SetPath
\* C30: SetPath called on a writer that has a file open terminates: the clone
\* that runs it is never left waiting in Close for writer.mu while its own
\* SetPath holds that mutex, a wait that no step of any clone can end.
C30_SetPathDoesNotBlockOnItsMutex ==
    \A c \in Clones : ~(cpc[c] = "waiting" /\ cop[c] = "SetPath.Close" /\ mu)

====
